---- MODULE Spec2Model ----
(***************************************************************************)
(* A model of the aggregation core of academix: the three TTL caches, the  *)
(* five backend adapters and the multi-source aggregator.                  *)
(*                                                                         *)
(* Python strings are modelled as sequences of one-character strings, so   *)
(* that startswith, in, lower, strip and split are computed, not assumed.  *)
(* The md5 digest of cache.py is taken to be injective: a cache key is the *)
(* key string the digest is computed from.                                 *)
(* A handler is one action: it runs from call to return, and the answers   *)
(* of the external backends to the HTTP requests it issues are inputs of   *)
(* the action.  Only get_bibtex_batch, which runs its calls concurrently,  *)
(* is modelled with one step per suspension point.                         *)
(***************************************************************************)
EXTENDS Integers, Sequences, FiniteSets, TLC

VARIABLES search_cache, paper_cache, bibtex_cache, last, nops, batch, cache, cache_ops, _aggregator, clients

vars == <<search_cache, paper_cache, bibtex_cache, last, nops, batch, cache, cache_ops, _aggregator, clients>>

\* ------------------------------------------------------------------ bounds
\* Number of handler calls and clock advances in one behaviour.
MaxOps == 2
\* maxsize of the APICache that the cache operations are exercised on, and
\* the number of operations on it in one behaviour.
CacheMaxsize == 2
MaxCacheOps == 5

\* ----------------------------------------------------------------- strings
S_None == <<"N","o","n","e">>
S_bar == <<"|">>
S_eq == <<"=">>
S_slash == <<"/">>
S_space == <<" ">>
S_search == <<"s","e","a","r","c","h",":">>
S_paper == <<"p","a","p","e","r",":">>
S_bibtex == <<"b","i","b","t","e","x">>
S_openalex == <<"o","p","e","n","a","l","e","x">>
S_dblp == <<"d","b","l","p">>
S_semantic == <<"s","e","m","a","n","t","i","c">>
S_arxiv == <<"a","r","x","i","v">>
S_crossref == <<"c","r","o","s","s","r","e","f">>
S_limit == <<"l","i","m","i","t">>
S_offset == <<"o","f","f","s","e","t">>
S_sort == <<"s","o","r","t">>
S_venue == <<"v","e","n","u","e">>
S_year_from == <<"y","e","a","r","_","f","r","o","m">>
S_year_to == <<"y","e","a","r","_","t","o">>
S_dblp_colon == <<"d","b","l","p",":">>
S_arxiv_colon == <<"a","r","x","i","v",":">>
S_doi_org == <<"d","o","i",".","o","r","g">>
S_http == <<"h","t","t","p">>
S_https == <<"h","t","t","p","s",":","/","/">>
S_https_doi == <<"h","t","t","p","s",":","/","/","d","o","i",".","o","r","g","/">>
S_http_doi == <<"h","t","t","p",":","/","/","d","o","i",".","o","r","g","/">>
S_doi_colon == <<"d","o","i",":">>
S_10dot == <<"1","0",".">>
S_author_eq == <<"a","u","t","h","o","r"," ","=">>
S_oa_url == <<"h","t","t","p","s",":","/","/","o","p","e","n","a","l","e","x",".","o","r","g","/">>
UpperCase == <<"A","B","C","D","E","F","G","H","I","J","K","L","M","N","O","P","Q","R","S","T","U","V","W","X","Y","Z">>
LowerCase == <<"a","b","c","d","e","f","g","h","i","j","k","l","m","n","o","p","q","r","s","t","u","v","w","x","y","z">>
Digits == {"0","1","2","3","4","5","6","7","8","9"}
DigitChars == <<"0","1","2","3","4","5","6","7","8","9">>

\* Python's None where a str is expected: a value no string is equal to.
None == <<"NoneType">>
\* Python's None where an int is expected is the empty tuple, an int n is <<n>>.
NoInt == <<>>

Range(s) == {s[i] : i \in 1..Len(s)}

startswith(s, p) == Len(p) <= Len(s) /\ SubSeq(s, 1, Len(p)) = p

\* `sub in s` on strings
contains(s, sub) == \E i \in 0..(Len(s) - Len(sub)) : SubSeq(s, i + 1, i + Len(sub)) = sub

lowerChar(c) == IF \E i \in 1..26 : UpperCase[i] = c
                THEN LowerCase[CHOOSE i \in 1..26 : UpperCase[i] = c]
                ELSE c

lower(s) == [i \in 1..Len(s) |-> lowerChar(s[i])]

isspace(c) == c \in {" ", "\n", "\t"}

\* str.strip(): leading and trailing whitespace removed
strip(s) ==
  IF \A i \in 1..Len(s) : isspace(s[i]) THEN <<>>
  ELSE LET lo == CHOOSE i \in 1..Len(s) : ~isspace(s[i]) /\ \A j \in 1..(i-1) : isspace(s[j])
           hi == CHOOSE i \in 1..Len(s) : ~isspace(s[i]) /\ \A j \in (i+1)..Len(s) : isspace(s[j])
       IN SubSeq(s, lo, hi)

\* s.split("/")[-1]
splitLast(s) ==
  IF \A i \in 1..Len(s) : s[i] # "/" THEN s
  ELSE LET k == CHOOSE i \in 1..Len(s) : s[i] = "/" /\ \A j \in (i+1)..Len(s) : s[j] # "/"
       IN SubSeq(s, k + 1, Len(s))

\* s.rsplit("v", 1)[0]
rsplit_v(s) ==
  IF \A i \in 1..Len(s) : s[i] # "v" THEN s
  ELSE LET k == CHOOSE i \in 1..Len(s) : s[i] = "v" /\ \A j \in (i+1)..Len(s) : s[j] # "v"
       IN SubSeq(s, 1, k - 1)

isalnum(c) == c \in Digits \/ c \in Range(UpperCase) \/ c \in Range(LowerCase)

\* str(n) for a natural number
RECURSIVE str_int(_)
str_int(n) == IF n < 10 THEN <<DigitChars[n + 1]>>
              ELSE str_int(n \div 10) \o <<DigitChars[(n % 10) + 1]>>

\* str(v) of an optional string / optional int
str_opt(v) == IF v = None THEN S_None ELSE v
str_optint(v) == IF v = NoInt THEN S_None ELSE str_int(v[1])

\* "sep".join(parts)
RECURSIVE join(_, _)
join(sep, parts) ==
  IF Len(parts) = 0 THEN <<>>
  ELSE IF Len(parts) = 1 THEN parts[1]
  ELSE parts[1] \o sep \o join(sep, Tail(parts))

Min(a, b) == IF a < b THEN a ELSE b

\* The value of an expression, computed once.
the(S) == CHOOSE x \in S : TRUE

\* ------------------------------------------------------------------- cache
\* cachetools.TTLCache as APICache uses it: entries in insertion order (the
\* oldest first), which is also the order in which they expire.
SearchCacheMaxsize == 500
PaperCacheMaxsize == 2000
BibTeXCacheMaxsize == 1000

APICache(maxsize) == [maxsize |-> maxsize, data |-> <<>>, hits |-> 0, misses |-> 0]

Keys(c) == {c.data[i].k : i \in 1..Len(c.data)}
Has(c, key) == key \in Keys(c)
Value(c, key) == c.data[CHOOSE i \in 1..Len(c.data) : c.data[i].k = key].v

RECURSIVE Without(_, _)
Without(data, key) ==
  IF data = <<>> THEN <<>>
  ELSE IF data[1].k = key THEN Without(Tail(data), key)
  ELSE <<data[1]>> \o Without(Tail(data), key)

\* APICache.get counting only in the try branch: a KeyError is answered with
\* None and not counted.
APICache_get_uncounted(c, key) ==
  IF Has(c, key) THEN [c EXCEPT !.hits = @ + 1] ELSE c

\* APICache.get: the cache after the call; the value returned is Value(c, key)
\* for a key that is held and None otherwise.
APICache_get(c, key) ==
  IF Has(c, key) THEN [c EXCEPT !.hits = @ + 1] ELSE [c EXCEPT !.misses = @ + 1]

\* APICache.set: a new key evicts the oldest entries while the cache is full;
\* a key already held is re-inserted as the newest entry.
APICache_set(c, key, value) ==
  LET kept == IF Has(c, key) THEN Without(c.data, key)
              ELSE IF Len(c.data) >= c.maxsize
                   THEN SubSeq(c.data, Len(c.data) - c.maxsize + 2, Len(c.data))
                   ELSE c.data
  IN [c EXCEPT !.data = Append(kept, [k |-> key, v |-> value])]

\* The TTL of the n oldest entries runs out.
APICache_expire(c, n) == [c EXCEPT !.data = SubSeq(c.data, n + 1, Len(c.data))]

\* APICache.get_or_set with a factory that returns value; a cached None is
\* computed again, as the code tests the value and not the presence.
APICache_get_or_set(c, key, value) ==
  IF Has(c, key) /\ Value(c, key) # None
  THEN [cache |-> APICache_get(c, key), result |-> Value(c, key)]
  ELSE [cache |-> APICache_set(APICache_get(c, key), key, value), result |-> value]

\* APICache.invalidate with only the hit branch: the KeyError of del is not
\* caught and every call reports True.
APICache_invalidate_always(c, key) ==
  [cache |-> [c EXCEPT !.data = Without(c.data, key)], result |-> TRUE]

\* APICache.invalidate: del self._cache[key] and True, or False on KeyError.
APICache_invalidate(c, key) ==
  IF Has(c, key) THEN [cache |-> [c EXCEPT !.data = Without(c.data, key)], result |-> TRUE]
  ELSE [cache |-> c, result |-> FALSE]

\* APICache.clear.
APICache_clear(c) == [c EXCEPT !.data = <<>>, !.hits = 0, !.misses = 0]

\* f"{hit_rate:.1%}" of hits / total: the rate in tenths of a percent, rounded
\* to the nearest (no total below 16 has a quotient half way between two).
hit_rate(hits, total) ==
  LET tenths == IF total > 0 THEN (2000 * hits + total) \div (2 * total) ELSE 0
  IN str_int(tenths \div 10) \o <<".">> \o str_int(tenths % 10) \o <<"%">>

\* APICache.stats without ttl, which no operation changes.
APICache_stats(c) ==
  [size |-> Len(c.data), maxsize |-> c.maxsize, hits |-> c.hits, misses |-> c.misses,
   hit_rate |-> hit_rate(c.hits, c.hits + c.misses)]

\* APICache._make_key: prefix, positional arguments and sorted k=v pairs
\* joined with "|"; args are already strings, kwargs is a sequence of
\* <<name, str(value)>> in the sorted order of the names.
_make_key(prefix, args, kwargs) ==
  join(S_bar, <<prefix>> \o args \o [i \in 1..Len(kwargs) |-> kwargs[i][1] \o S_eq \o kwargs[i][2]])

\* SearchCache.search_key; filters is a sequence of <<name, str(value)>>.
\* sorted(kwargs.items()) puts limit and offset before sort, venue, year_*.
search_key(source, query, limit, offset, filters) ==
  _make_key(S_search \o source, <<strip(lower(query))>>,
            <<  <<S_limit, str_int(limit)>>, <<S_offset, str_int(offset)>> >> \o filters)

paper_key(source, paper_id) == _make_key(S_paper \o source, <<paper_id>>, <<>>)

bibtex_key(paper_id) == _make_key(S_bibtex, <<paper_id>>, <<>>)

\* -------------------------------------------------------------- data model
\* PaperSource, and "none" for a source argument that is None.
PaperSource == {"openalex", "dblp", "semantic_scholar", "arxiv", "crossref"}

truthy(v) == v # None /\ v # <<>>

\* Paper.normalize_doi: strip, then remove each prefix in turn.
cut_prefix(v, prefix) == IF startswith(lower(v), lower(prefix))
                         THEN SubSeq(v, Len(prefix) + 1, Len(v)) ELSE v

normalize_doi(v) ==
  IF v = None THEN None
  ELSE cut_prefix(cut_prefix(cut_prefix(strip(v), S_https_doi), S_http_doi), S_doi_colon)

\* Paper(...): str fields are whitespace-stripped, the doi is normalised.
\* Of the optional fields the model keeps venue, doi, arxiv_id, url and
\* bibtex_key; the records of the backends carry no authors, abstract,
\* volume, issue or pages, so these fields keep their defaults.
Paper(id, title, year, venue, doi, citation_count, source, key) ==
  [id |-> strip(id), title |-> strip(title), year |-> year,
   venue |-> IF venue = None THEN None ELSE strip(venue),
   doi |-> normalize_doi(doi), arxiv_id |-> None, url |-> None,
   citation_count |-> citation_count,
   source |-> source, bibtex_key |-> IF key = None THEN None ELSE strip(key)]

\* The value a handler returns when it returns None.
NoPaper == [null |-> TRUE]
NoResult == [null |-> TRUE]
NoError == [adapter |-> "none", kind |-> "none"]

S_Untitled == <<"U","n","t","i","t","l","e","d">>
S_DBLP_colon == <<"D","B","L","P",":">>

\* ------------------------------------------------------------ HTTP backend
\* A response of a backend: either the request fails (raise_for_status on a
\* 4xx/5xx answer, or a timeout), or it carries a body.  A JSON record of a
\* backend is [id, title, year, venue, doi, cites, refs]; the id is the
\* backend's own (an OpenAlex URL, a DBLP key, an S2 paperId, a DOI).
HttpFailures == {"HTTPStatusError", "TimeoutException"}

Failed(kind) == [ok |-> FALSE, kind |-> kind, items |-> <<>>, total |-> 0, next |-> FALSE, text |-> <<>>]
Json(items, total, next) == [ok |-> TRUE, kind |-> "200", items |-> items, total |-> total, next |-> next, text |-> <<>>]
Text(text) == [ok |-> TRUE, kind |-> "200", items |-> <<>>, total |-> 0, next |-> FALSE, text |-> text]

\* BaseClient._request: the error raised for a failed response
HttpError(adapter, resp) == [adapter |-> adapter, kind |-> resp.kind]

Request(adapter, endpoint) == [adapter |-> adapter, endpoint |-> endpoint]

\* What a client method hands back: the caches, whether it raised and what,
\* the value returned, and the HTTP requests it issued, in order.
Ret(sc, pc, bc, result, http) ==
  [sc |-> sc, pc |-> pc, bc |-> bc, raised |-> FALSE, error |-> NoError, result |-> result, http |-> http]
Raise(sc, pc, bc, error, http) ==
  [sc |-> sc, pc |-> pc, bc |-> bc, raised |-> TRUE, error |-> error, result |-> NoResult, http |-> http]

\* ------------------------------------------------------ BaseClient._client
\* The httpx.AsyncClient objects an adapter has created, each open or closed
\* (is_closed), and the one self._client refers to: 0 stands for None.
NoClient == [_client |-> 0, objects |-> <<>>, requests |-> 0, closing |-> 0]

is_closed(c) == c.objects[c._client] = "closed"

\* BaseClient._get_client with the test on is_closed left out.
BaseClient_get_client_kept(c) ==
  IF c._client = 0
  THEN [c EXCEPT !._client = Len(c.objects) + 1, !.objects = Append(c.objects, "open")]
  ELSE c

\* BaseClient._get_client: a new client unless an open one is held.
BaseClient_get_client(c) ==
  IF c._client = 0 \/ is_closed(c)
  THEN [c EXCEPT !._client = Len(c.objects) + 1, !.objects = Append(c.objects, "open")]
  ELSE c

\* AsyncClient.aclose up to its first suspension: the client is closed.
aclose(c) == [c EXCEPT !.objects[c._client] = "closed"]

\* BaseClient.close run without interruption.
BaseClient_close(c) ==
  IF c._client # 0 /\ ~is_closed(c) THEN [aclose(c) EXCEPT !._client = 0] ELSE c

SearchResult(total, papers, offset, has_more, query, source) ==
  [total_results |-> total, returned_count |-> Len(papers), offset |-> offset,
   has_more |-> has_more, papers |-> papers, query |-> query, source |-> source]

\* the four filters of a search key, as sorted(kwargs.items()) orders them
filters4(a) == << <<S_sort, str_opt(a.sort)>>, <<S_venue, str_opt(a.venue)>>,
                  <<S_year_from, str_optint(a.year_from)>>, <<S_year_to, str_optint(a.year_to)>> >>
filters3(a) == << <<S_sort, str_opt(a.sort)>>,
                  <<S_year_from, str_optint(a.year_from)>>, <<S_year_to, str_optint(a.year_to)>> >>

\* papers[lo:][:n]
slice(s, lo, n) == SubSeq(s, lo + 1, Min(Len(s), lo + n))

RECURSIVE select_venue(_, _)
\* the venue post-filter of the Semantic Scholar and CrossRef searches
select_venue(papers, venue) ==
  IF papers = <<>> THEN <<>>
  ELSE IF truthy(venue) /\ truthy(papers[1].venue) /\ ~contains(lower(papers[1].venue), lower(venue))
  THEN select_venue(Tail(papers), venue)
  ELSE <<papers[1]>> \o select_venue(Tail(papers), venue)

\* ----------------------------------------------------------------- OpenAlex
OpenAlexPerPage == 200

OpenAlex_parse_work(work) ==
  [Paper(IF truthy(work.id) THEN splitLast(work.id) ELSE <<>>,
         IF truthy(work.title) THEN work.title ELSE S_Untitled,
         work.year, work.venue,
         IF truthy(work.doi) /\ startswith(work.doi, S_https_doi)
         THEN SubSeq(work.doi, 17, Len(work.doi)) ELSE work.doi,
         work.cites, "openalex", None)
   EXCEPT !.url = IF work.id = None THEN None ELSE strip(work.id)]

\* A slip: the result of a fetch is returned but not put into the cache.
OpenAlex_search_unstored(sc, pc, bc, a, resp) ==
  LET key == search_key(S_openalex, a.query, a.limit, a.offset, filters4(a))
      c1 == APICache_get(sc, key)
      req == <<Request("openalex", "works")>>
      parsed == [i \in 1..Len(resp.items) |-> OpenAlex_parse_work(resp.items[i])]
      papers == slice(parsed, a.offset % OpenAlexPerPage, a.limit)
      result == SearchResult(resp.total, papers, a.offset,
                             a.offset + Len(papers) < resp.total, a.query, "openalex")
  IN IF Has(sc, key) THEN Ret(c1, pc, bc, Value(sc, key), <<>>)
     ELSE IF ~resp.ok THEN Raise(c1, pc, bc, HttpError("openalex", resp), req)
     ELSE Ret(c1, pc, bc, result, req)

OpenAlex_search_key(a) == search_key(S_openalex, a.query, a.limit, a.offset, filters4(a))

\* OpenAlexClient.search with has_more told from a full page, as the arXiv
\* adapter tells it.
OpenAlex_search_full_page(sc, pc, bc, a, resp) ==
  LET key == OpenAlex_search_key(a)
      c1 == APICache_get(sc, key)
      req == <<Request("openalex", "works")>>
      parsed == [i \in 1..Len(resp.items) |-> OpenAlex_parse_work(resp.items[i])]
      papers == slice(parsed, a.offset % OpenAlexPerPage, a.limit)
      result == SearchResult(resp.total, papers, a.offset,
                             Len(papers) = a.limit, a.query, "openalex")
  IN IF Has(sc, key) THEN Ret(c1, pc, bc, Value(sc, key), <<>>)
     ELSE IF ~resp.ok THEN Raise(c1, pc, bc, HttpError("openalex", resp), req)
     ELSE Ret(APICache_set(c1, key, result), pc, bc, result, req)

OpenAlex_search(sc, pc, bc, a, resp) ==
  LET key == OpenAlex_search_key(a)
      c1 == APICache_get(sc, key)
      req == <<Request("openalex", "works")>>
      parsed == [i \in 1..Len(resp.items) |-> OpenAlex_parse_work(resp.items[i])]
      papers == slice(parsed, a.offset % OpenAlexPerPage, a.limit)
      result == SearchResult(resp.total, papers, a.offset,
                             a.offset + Len(papers) < resp.total, a.query, "openalex")
  IN IF Has(sc, key) THEN Ret(c1, pc, bc, Value(sc, key), <<>>)
     ELSE IF ~resp.ok THEN Raise(c1, pc, bc, HttpError("openalex", resp), req)
     ELSE Ret(APICache_set(c1, key, result), pc, bc, result, req)

\* --------------------------------------------------------------------- DBLP
DBLP_generate_bibtex_key_from_dblp(dblp_key) ==
  IF ~truthy(dblp_key) THEN None ELSE S_DBLP_colon \o splitLast(dblp_key)

DBLP_parse_hit(hit) ==
  Paper(hit.id,
        IF hit.title = None THEN S_Untitled ELSE hit.title,
        hit.year, hit.venue,
        IF truthy(hit.doi) /\ ~startswith(hit.doi, S_10dot) THEN None ELSE hit.doi,
        0, "dblp", DBLP_generate_bibtex_key_from_dblp(hit.id))

DBLP_search_key(a) == search_key(S_dblp, a.query, a.limit, a.offset, filters4(a))

\* DBLPClient.search from the answer to its request on
DBLP_search_answered(c1, pc, bc, a, resp) ==
  LET key == DBLP_search_key(a)
      req == <<Request("dblp", "search/publ/api")>>
      papers == [i \in 1..Len(resp.items) |-> DBLP_parse_hit(resp.items[i])]
      result == SearchResult(resp.total, papers, a.offset,
                             a.offset + Len(papers) < resp.total, a.query, "dblp")
  IN IF ~resp.ok THEN Raise(c1, pc, bc, HttpError("dblp", resp), req)
     ELSE Ret(APICache_set(c1, key, result), pc, bc, result, req)

DBLP_search(sc, pc, bc, a, resp) ==
  LET key == DBLP_search_key(a)
  IN IF Has(sc, key) THEN Ret(APICache_get(sc, key), pc, bc, Value(sc, key), <<>>)
     ELSE DBLP_search_answered(APICache_get(sc, key), pc, bc, a, resp)

\* --------------------------------------------------------- Semantic Scholar
Semantic_parse_paper(data) ==
  Paper(data.id, IF data.title = None THEN S_Untitled ELSE data.title,
        data.year, data.venue, data.doi, data.cites, "semantic_scholar", None)

Semantic_search_key(a) == search_key(S_semantic, a.query, a.limit, a.offset, filters3(a))

Semantic_search(sc, pc, bc, a, resp) ==
  LET key == Semantic_search_key(a)
      c1 == APICache_get(sc, key)
      req == <<Request("semantic_scholar", "paper/search")>>
      parsed == [i \in 1..Len(resp.items) |-> Semantic_parse_paper(resp.items[i])]
      papers == select_venue(parsed, a.venue)
      result == SearchResult(resp.total, papers, a.offset, resp.next, a.query, "semantic_scholar")
  IN IF Has(sc, key) THEN Ret(c1, pc, bc, Value(sc, key), <<>>)
     ELSE IF ~resp.ok THEN Raise(c1, pc, bc, HttpError("semantic_scholar", resp), req)
     ELSE Ret(APICache_set(c1, key, result), pc, bc, result, req)

\* -------------------------------------------------------------------- arXiv
S_arXiv_preprint == <<"a","r","X","i","v"," ","p","r","e","p","r","i","n","t"," ","a","r","X","i","v",":">>

\* the arXiv id of an entry_id such as http://arxiv.org/abs/2401.12345v1
Arxiv_id_of(entry_id) ==
  IF ~truthy(entry_id) THEN entry_id
  ELSE LET t == splitLast(entry_id)
       IN IF contains(t, <<"v">>) THEN rsplit_v(t) ELSE t

Arxiv_parse_result(r) ==
  LET arxiv_id == Arxiv_id_of(r.id)
  IN [Paper(IF truthy(arxiv_id) THEN S_arxiv_colon \o arxiv_id ELSE <<>>,
            IF r.title = None THEN <<>> ELSE r.title,
            r.year, S_arXiv_preprint \o str_opt(arxiv_id), r.doi, 0, "arxiv", None)
      EXCEPT !.arxiv_id = IF arxiv_id = None THEN None ELSE strip(arxiv_id),
             !.url = IF r.id = None THEN None ELSE strip(r.id)]

RECURSIVE select_years(_, _, _)
\* the client-side year filter of the arXiv search
select_years(papers, year_from, year_to) ==
  IF papers = <<>> THEN <<>>
  ELSE LET p == papers[1]
           drop == \/ (year_from # NoInt /\ p.year # NoInt /\ p.year[1] < year_from[1])
                   \/ (year_to # NoInt /\ p.year # NoInt /\ p.year[1] > year_to[1])
       IN (IF drop THEN <<>> ELSE <<p>>) \o select_years(Tail(papers), year_from, year_to)

Arxiv_search_key(a) == search_key(S_arxiv, a.query, a.limit, a.offset, filters3(a))

Arxiv_search(sc, pc, bc, a, resp) ==
  LET key == Arxiv_search_key(a)
      c1 == APICache_get(sc, key)
      req == <<Request("arxiv", "query")>>
      results == SubSeq(resp.items, a.offset + 1, Min(Len(resp.items), a.offset + a.limit))
      parsed == [i \in 1..Len(results) |-> Arxiv_parse_result(results[i])]
      papers == select_years(parsed, a.year_from, a.year_to)
      result == SearchResult(Len(papers), papers, a.offset, Len(results) = a.limit, a.query, "arxiv")
  IN IF Has(sc, key) THEN Ret(c1, pc, bc, Value(sc, key), <<>>)
     ELSE IF ~resp.ok THEN Raise(c1, pc, bc, HttpError("arxiv", resp), req)
     ELSE Ret(APICache_set(c1, key, result), pc, bc, result, req)

\* ----------------------------------------------------------------- CrossRef
CrossRef_parse_work(work) ==
  [Paper(IF work.id = None THEN <<>> ELSE work.id,
         IF truthy(work.title) THEN work.title ELSE S_Untitled,
         work.year, work.venue, work.id, work.cites, "crossref", None)
   EXCEPT !.url = strip(S_https_doi \o str_opt(work.id))]

CrossRef_search_key(a) == search_key(S_crossref, a.query, a.limit, a.offset, filters4(a))

CrossRef_search(sc, pc, bc, a, resp) ==
  LET key == CrossRef_search_key(a)
      c1 == APICache_get(sc, key)
      req == <<Request("crossref", "works")>>
      parsed == [i \in 1..Len(resp.items) |-> CrossRef_parse_work(resp.items[i])]
      papers == select_venue(parsed, a.venue)
      result == SearchResult(resp.total, papers, a.offset,
                             a.offset + Len(papers) < resp.total, a.query, "crossref")
  IN IF Has(sc, key) THEN Ret(c1, pc, bc, Value(sc, key), <<>>)
     ELSE IF ~resp.ok THEN Raise(c1, pc, bc, HttpError("crossref", resp), req)
     ELSE Ret(APICache_set(c1, key, result), pc, bc, result, req)

\* --------------------------------------------------------------- aggregator
\* self.<client>.search(...)
Client_search(adapter, sc, pc, bc, a, resp) ==
  CASE adapter = "openalex" -> OpenAlex_search(sc, pc, bc, a, resp)
    [] adapter = "dblp" -> DBLP_search(sc, pc, bc, a, resp)
    [] adapter = "semantic_scholar" -> Semantic_search(sc, pc, bc, a, resp)
    [] adapter = "arxiv" -> Arxiv_search(sc, pc, bc, a, resp)
    [] adapter = "crossref" -> CrossRef_search(sc, pc, bc, a, resp)

\* The record of one adapter call made by the aggregator.
Call(adapter, r) ==
  [adapter |-> adapter, raised |-> r.raised, error |-> r.error, result |-> r.result,
   http |-> Len(r.http)]

\* What an aggregator method hands back: as a client method, with the
\* adapter calls it made, in order.
Out(r, calls, http) ==
  [sc |-> r.sc, pc |-> r.pc, bc |-> r.bc, raised |-> r.raised, error |-> r.error,
   result |-> r.result, http |-> http, calls |-> calls]

\* A slip in the fallback chain: Semantic Scholar is tried before DBLP.
Aggregator_search_swapped(sc, pc, bc, source, a, resps) ==
  IF source \in {"dblp", "semantic_scholar", "arxiv", "crossref"}
  THEN the({ Out(r, <<Call(source, r)>>, r.http) :
             r \in {Client_search(source, sc, pc, bc, a, resps[1])} })
  ELSE the({ IF ~r1.raised THEN Out(r1, <<Call("openalex", r1)>>, r1.http)
             ELSE the({ IF ~r2.raised
                        THEN Out(r2, <<Call("openalex", r1), Call("semantic_scholar", r2)>>, r1.http \o r2.http)
                        ELSE the({ Out(r3, <<Call("openalex", r1), Call("semantic_scholar", r2), Call("dblp", r3)>>,
                                       r1.http \o r2.http \o r3.http) :
                                   r3 \in {DBLP_search(r2.sc, r2.pc, r2.bc, a, resps[3])} }) :
                        r2 \in {Semantic_search(r1.sc, r1.pc, r1.bc, a, resps[2])} }) :
             r1 \in {OpenAlex_search(sc, pc, bc, a, resps[1])} })

\* AcademicAggregator.search; resps[i] answers the request of the i-th adapter called.
Aggregator_search(sc, pc, bc, source, a, resps) ==
  IF source \in {"dblp", "semantic_scholar", "arxiv", "crossref"}
  THEN the({ Out(r, <<Call(source, r)>>, r.http) :
             r \in {Client_search(source, sc, pc, bc, a, resps[1])} })
  ELSE the({ IF ~r1.raised THEN Out(r1, <<Call("openalex", r1)>>, r1.http)
             ELSE the({ IF ~r2.raised
                        THEN Out(r2, <<Call("openalex", r1), Call("dblp", r2)>>, r1.http \o r2.http)
                        ELSE the({ Out(r3, <<Call("openalex", r1), Call("dblp", r2), Call("semantic_scholar", r3)>>,
                                       r1.http \o r2.http \o r3.http) :
                                   r3 \in {Semantic_search(r2.sc, r2.pc, r2.bc, a, resps[3])} }) :
                        r2 \in {DBLP_search(r1.sc, r1.pc, r1.bc, a, resps[2])} }) :
             r1 \in {OpenAlex_search(sc, pc, bc, a, resps[1])} })

\* ------------------------------------------------------- the search machine
\* Inputs of the search handlers.
Queries == { <<"q">> }
Venues == { None, <<"v">> }
SearchArgs == [query : Queries, limit : {1}, offset : {0}, sort : {None},
               year_from : {NoInt}, year_to : {NoInt}, venue : Venues]

Record(id, venue, cites) ==
  [id |-> id, title |-> None, year |-> NoInt, venue |-> venue, doi |-> None,
   cites |-> cites, refs |-> <<>>]

SearchResponses ==
  { Failed("HTTPStatusError"),
    Json(<<>>, 0, FALSE),
    Json(<<Record(<<"W","1">>, <<"v">>, 1)>>, 2, TRUE) }

\* No get_bibtex_batch is running.
NoBatch == [phase |-> "idle", paper_ids |-> <<>>, use_dblp |-> FALSE, tasks |-> <<>>,
            finished |-> <<>>]

\* The get and set calls made on cache since its creation or its last clear.
NoCacheOps == [gets |-> 0, sets |-> 0]

NoCall == [op |-> "none", source |-> "none", args |-> <<>>, calls |-> <<>>, http |-> <<>>,
           raised |-> FALSE, error |-> NoError, result |-> NoResult, n |-> 0]

Done(op, source, args, r) ==
  [op |-> op, source |-> source, args |-> args, calls |-> r.calls, http |-> r.http,
   raised |-> r.raised, error |-> r.error, result |-> r.result, n |-> nops + 1]

Init ==
  /\ search_cache = APICache(SearchCacheMaxsize)
  /\ paper_cache = APICache(PaperCacheMaxsize)
  /\ bibtex_cache = APICache(BibTeXCacheMaxsize)
  /\ last = NoCall
  /\ nops = 0
  /\ batch = NoBatch
  /\ cache = APICache(CacheMaxsize)
  /\ cache_ops = NoCacheOps
  /\ _aggregator = None
  /\ clients = [adapter \in PaperSource |-> NoClient]

\* The answers the backends give to one aggregator.search: one per adapter
\* of the chain; an answer no request can ask for is left out (it is the
\* first failure).
SearchAnswers(source) ==
  LET unused == Failed("HTTPStatusError")
  IN { v \in [1..3 -> SearchResponses] :
         /\ (source \in {"dblp", "semantic_scholar", "arxiv", "crossref"} \/ v[1].ok)
               => (v[2] = unused /\ v[3] = unused)
         /\ v[2].ok => v[3] = unused }

\* aggregator.search(query, ..., source=source)
Search ==
  /\ nops < MaxOps
  /\ \E source \in PaperSource \cup {"none"}, a \in SearchArgs :
     \E resps \in SearchAnswers(source) :
       \E r \in {Aggregator_search(search_cache, paper_cache, bibtex_cache, source, a, resps)} :
          /\ search_cache' = r.sc
          /\ last' = Done("search", source, a, r)
  /\ nops' = nops + 1
  /\ UNCHANGED <<paper_cache, bibtex_cache, batch, cache, cache_ops, _aggregator, clients>>

\* <adapter>.search(query, ...), the adapter called directly
ClientSearch ==
  /\ nops < MaxOps
  /\ \E adapter \in PaperSource, a \in SearchArgs, resp \in SearchResponses :
       \E r \in {Client_search(adapter, search_cache, paper_cache, bibtex_cache, a, resp)} :
          /\ search_cache' = r.sc
          /\ last' = Done("client_search", adapter, a, Out(r, <<Call(adapter, r)>>, r.http))
  /\ nops' = nops + 1
  /\ UNCHANGED <<paper_cache, bibtex_cache, batch, cache, cache_ops, _aggregator, clients>>

\* Time passes: the TTL of the oldest entries of the search cache runs out.
SearchExpire ==
  /\ \E n \in 1..Len(search_cache.data) : search_cache' = APICache_expire(search_cache, n)
  /\ UNCHANGED <<paper_cache, bibtex_cache, last, nops, batch, cache, cache_ops, _aggregator, clients>>

NextSearch == Search \/ ClientSearch \/ SearchExpire

SpecSearch == Init /\ [][NextSearch]_vars

\* ------------------------------------------------------ claims on search
Client_search_key(adapter, a) ==
  CASE adapter = "openalex" -> OpenAlex_search_key(a)
    [] adapter = "dblp" -> DBLP_search_key(a)
    [] adapter = "semantic_scholar" -> Semantic_search_key(a)
    [] adapter = "arxiv" -> Arxiv_search_key(a)
    [] adapter = "crossref" -> CrossRef_search_key(a)

\* C1: a search with no source calls OpenAlex first, DBLP only after OpenAlex
\* raised and Semantic Scholar only after DBLP raised too; it returns the
\* result of the first adapter that succeeds and calls no adapter after it;
\* when all three raise, the error of Semantic Scholar reaches the caller.
C1_DefaultSearchFallsBackInOrder ==
  (last.op = "search" /\ last.source = "none") =>
    LET c == last.calls
        n == Len(c)
    IN /\ n \in 1..3
       /\ c[1].adapter = "openalex"
       /\ n >= 2 => c[2].adapter = "dblp"
       /\ n >= 3 => c[3].adapter = "semantic_scholar"
       /\ \A i \in 1..(n - 1) : c[i].raised
       /\ ~c[n].raised => (~last.raised /\ last.result = c[n].result)
       /\ c[n].raised => (n = 3 /\ last.raised /\ last.error = c[3].error
                          /\ last.error.adapter = "semantic_scholar")

\* all three adapters of the chain were called and raised
C1_Witness ==
  /\ last.op = "search" /\ last.source = "none"
  /\ Len(last.calls) = 3 /\ last.raised
  /\ last.error = [adapter |-> "semantic_scholar", kind |-> "HTTPStatusError"]

\* C2 (as claimed): a search with an explicit source calls that source's
\* adapter and no other; when it raises, its error reaches the caller.
C2_ExplicitSourceNeverFallsBack ==
  (last.op = "search" /\ last.source \in PaperSource) =>
    /\ Len(last.calls) = 1
    /\ last.calls[1].adapter = last.source
    /\ last.calls[1].raised => (last.raised /\ last.error = last.calls[1].error)

\* C10: an adapter search whose key is held by the search cache issues no
\* HTTP request, returns the held result and counts one hit; one whose key is
\* not held counts one miss, issues exactly one HTTP request and, when the
\* request succeeds, stores the result it returns under that key; an entry
\* stays as stored until its TTL runs out.
C10_Call ==
  (nops' = nops + 1 /\ last'.op = "client_search") =>
    LET key == Client_search_key(last'.source, last'.args)
    IN IF Has(search_cache, key)
       THEN /\ last'.http = <<>>
            /\ ~last'.raised
            /\ last'.result = Value(search_cache, key)
            /\ search_cache'.hits = search_cache.hits + 1
            /\ search_cache'.misses = search_cache.misses
            /\ search_cache'.data = search_cache.data
       ELSE /\ Len(last'.http) = 1
            /\ search_cache'.misses = search_cache.misses + 1
            /\ search_cache'.hits = search_cache.hits
            /\ ~last'.raised => /\ Has(search_cache', key)
                                /\ Value(search_cache', key) = last'.result
            /\ last'.raised => search_cache'.data = search_cache.data

C10_Kept ==
  /\ \A k \in Keys(search_cache) \cap Keys(search_cache') :
       Value(search_cache', k) = Value(search_cache, k)
  /\ nops' = nops + 1 => Keys(search_cache) \subseteq Keys(search_cache')

S_W == <<"W">>
S_dot == <<".">>
S_arxiv_dot == <<"a","r","x","i","v",".">>
S_http_doi_org == <<"h","t","t","p",":","/","/","d","o","i",".","o","r","g","/">>
S_arxiv_abs == <<"h","t","t","p",":","/","/","a","r","x","i","v",".","o","r","g","/","a","b","s","/">>

\* A request whose URL carries an identifier.
RequestFor(adapter, endpoint, id) == [adapter |-> adapter, endpoint |-> endpoint, id |-> id]

\* s[n:] when s starts with prefix (case-sensitive), for a prefix of n characters
cut_exact(s, prefix) == IF startswith(s, prefix) THEN SubSeq(s, Len(prefix) + 1, Len(s)) ELSE s

\* s.split(sep)[1], for an s that contains sep
split_second(s, sep) ==
  LET at(i) == i + Len(sep) - 1 <= Len(s) /\ SubSeq(s, i, i + Len(sep) - 1) = sep
      k == CHOOSE i \in 1..Len(s) : at(i) /\ \A j \in 1..(i-1) : ~at(j)
      rest == SubSeq(s, k + Len(sep), Len(s))
  IN IF contains(rest, sep)
     THEN LET m == CHOOSE i \in 1..Len(rest) :
                     /\ i + Len(sep) - 1 <= Len(rest)
                     /\ SubSeq(rest, i, i + Len(sep) - 1) = sep
                     /\ \A j \in 1..(i-1) : SubSeq(rest, j, j + Len(sep) - 1) # sep
          IN SubSeq(rest, 1, m - 1)
     ELSE rest

\* OpenAlexClient.get_paper from the answer to its request on
OpenAlex_get_paper_answered(sc, c1, bc, paper_id, resp) ==
  LET key == paper_key(S_openalex, paper_id)
      req == IF startswith(paper_id, S_W) THEN RequestFor("openalex", "works/{id}", paper_id)
             ELSE IF startswith(paper_id, S_10dot) THEN RequestFor("openalex", "works/doi:{doi}", paper_id)
             ELSE IF startswith(paper_id, S_https_doi)
             THEN RequestFor("openalex", "works/doi:{doi}", SubSeq(paper_id, 17, Len(paper_id)))
             ELSE RequestFor("openalex", "works/{id}", paper_id)
      paper == OpenAlex_parse_work(resp.items[1])
  IN IF ~resp.ok THEN Ret(sc, c1, bc, NoPaper, <<req>>)
     ELSE Ret(sc, APICache_set(c1, key, paper), bc, paper, <<req>>)

OpenAlex_get_paper(sc, pc, bc, paper_id, resp) ==
  LET key == paper_key(S_openalex, paper_id)
  IN IF Has(pc, key) THEN Ret(sc, APICache_get(pc, key), bc, Value(pc, key), <<>>)
     ELSE OpenAlex_get_paper_answered(sc, APICache_get(pc, key), bc, paper_id, resp)

\* DBLPClient.get_paper: a search for the key with limit=5, whose first hit is
\* taken when the id holds a "/".
DBLP_get_paper_query(paper_id) ==
  [query |-> paper_id, limit |-> 5, offset |-> 0, sort |-> None,
   year_from |-> NoInt, year_to |-> NoInt, venue |-> None]

\* DBLPClient.get_paper after its search handed back r
DBLP_get_paper_of(r, paper_id) ==
  LET key == paper_key(S_dblp, paper_id)
      papers == r.result.papers
  IN IF r.raised THEN Ret(r.sc, r.pc, r.bc, NoPaper, r.http)
     ELSE IF papers # <<>> /\ truthy(papers[1].id) /\ contains(paper_id, S_slash)
     THEN Ret(r.sc, APICache_set(r.pc, key, papers[1]), r.bc, papers[1], r.http)
     ELSE Ret(r.sc, r.pc, r.bc, NoPaper, r.http)

\* DBLPClient.get_paper from the answer to the request of its search on
DBLP_get_paper_answered(c1, pc, bc, paper_id, resp) ==
  the({ DBLP_get_paper_of(r, paper_id) :
        r \in {DBLP_search_answered(c1, pc, bc, DBLP_get_paper_query(paper_id), resp)} })

DBLP_get_paper(sc, pc, bc, paper_id, resp) ==
  LET key == paper_key(S_dblp, paper_id)
  IN IF Has(pc, key) THEN Ret(sc, APICache_get(pc, key), bc, Value(pc, key), <<>>)
     ELSE the({ DBLP_get_paper_of(r, paper_id) :
                r \in {DBLP_search(sc, APICache_get(pc, key), bc,
                                   DBLP_get_paper_query(paper_id), resp)} })

Semantic_lookup_id(paper_id) ==
  IF startswith(paper_id, S_10dot)
  THEN IF contains(lower(paper_id), S_arxiv_dot)
       THEN <<"ARXIV", split_second(lower(paper_id), S_arxiv_dot)>>
       ELSE <<"DOI", paper_id>>
  ELSE IF startswith(lower(paper_id), S_arxiv_colon) THEN <<"ARXIV", SubSeq(paper_id, 7, Len(paper_id))>>
  ELSE IF contains(paper_id, S_dot) THEN <<"ARXIV", paper_id>>
  ELSE <<"", paper_id>>

\* SemanticScholarClient.get_paper from the answer to its request on
Semantic_get_paper_answered(sc, c1, bc, paper_id, resp) ==
  LET key == paper_key(S_semantic, paper_id)
      req == RequestFor("semantic_scholar", "paper/{lookup_id}", Semantic_lookup_id(paper_id))
      paper == Semantic_parse_paper(resp.items[1])
  IN IF ~resp.ok THEN Ret(sc, c1, bc, NoPaper, <<req>>)
     ELSE Ret(sc, APICache_set(c1, key, paper), bc, paper, <<req>>)

Semantic_get_paper(sc, pc, bc, paper_id, resp) ==
  LET key == paper_key(S_semantic, paper_id)
  IN IF Has(pc, key) THEN Ret(sc, APICache_get(pc, key), bc, Value(pc, key), <<>>)
     ELSE Semantic_get_paper_answered(sc, APICache_get(pc, key), bc, paper_id, resp)

\* ArxivClient.get_paper from the answer to its request on
Arxiv_get_paper_answered(sc, c1, bc, paper_id, resp) ==
  LET arxiv_id == cut_prefix(paper_id, S_arxiv_colon)
      key == paper_key(S_arxiv, arxiv_id)
      req == RequestFor("arxiv", "id_list", arxiv_id)
      paper == Arxiv_parse_result(resp.items[1])
  IN IF ~resp.ok THEN Ret(sc, c1, bc, NoPaper, <<req>>)
     ELSE IF resp.items = <<>> THEN Ret(sc, c1, bc, NoPaper, <<req>>)
     ELSE Ret(sc, APICache_set(c1, key, paper), bc, paper, <<req>>)

Arxiv_get_paper(sc, pc, bc, paper_id, resp) ==
  LET key == paper_key(S_arxiv, cut_prefix(paper_id, S_arxiv_colon))
  IN IF Has(pc, key) THEN Ret(sc, APICache_get(pc, key), bc, Value(pc, key), <<>>)
     ELSE Arxiv_get_paper_answered(sc, APICache_get(pc, key), bc, paper_id, resp)

CrossRef_doi(paper_id) ==
  IF startswith(paper_id, S_https_doi) THEN cut_exact(paper_id, S_https_doi)
  ELSE IF startswith(paper_id, S_http_doi_org) THEN cut_exact(paper_id, S_http_doi_org)
  ELSE cut_exact(paper_id, S_doi_colon)

\* CrossRefClient.get_paper from the answer to its request on
CrossRef_get_paper_answered(sc, c1, bc, paper_id, resp) ==
  LET doi == CrossRef_doi(paper_id)
      key == paper_key(S_crossref, doi)
      req == RequestFor("crossref", "works/{doi}", doi)
      paper == CrossRef_parse_work(resp.items[1])
  IN IF ~resp.ok THEN Ret(sc, c1, bc, NoPaper, <<req>>)
     ELSE Ret(sc, APICache_set(c1, key, paper), bc, paper, <<req>>)

CrossRef_get_paper(sc, pc, bc, paper_id, resp) ==
  LET key == paper_key(S_crossref, CrossRef_doi(paper_id))
  IN IF Has(pc, key) THEN Ret(sc, APICache_get(pc, key), bc, Value(pc, key), <<>>)
     ELSE CrossRef_get_paper_answered(sc, APICache_get(pc, key), bc, paper_id, resp)

\* client.get_paper(paper_id) from the answer to its request on
Client_get_paper_answered(adapter, sc, pc, bc, paper_id, resp) ==
  CASE adapter = "openalex" -> OpenAlex_get_paper_answered(sc, pc, bc, paper_id, resp)
    [] adapter = "dblp" -> DBLP_get_paper_answered(sc, pc, bc, paper_id, resp)
    [] adapter = "semantic_scholar" -> Semantic_get_paper_answered(sc, pc, bc, paper_id, resp)
    [] adapter = "arxiv" -> Arxiv_get_paper_answered(sc, pc, bc, paper_id, resp)
    [] adapter = "crossref" -> CrossRef_get_paper_answered(sc, pc, bc, paper_id, resp)

\* client.get_paper(paper_id)
Client_get_paper(adapter, sc, pc, bc, paper_id, resp) ==
  CASE adapter = "openalex" -> OpenAlex_get_paper(sc, pc, bc, paper_id, resp)
    [] adapter = "dblp" -> DBLP_get_paper(sc, pc, bc, paper_id, resp)
    [] adapter = "semantic_scholar" -> Semantic_get_paper(sc, pc, bc, paper_id, resp)
    [] adapter = "arxiv" -> Arxiv_get_paper(sc, pc, bc, paper_id, resp)
    [] adapter = "crossref" -> CrossRef_get_paper(sc, pc, bc, paper_id, resp)

\* re.match(r"^[a-z-]+/\d+$", s) and re.match(r"^\d{4}\.\d{4,5}$", s); `$`
\* also matches before a final newline.
before_dollar(s) == IF s # <<>> /\ s[Len(s)] = "\n" THEN {s, SubSeq(s, 1, Len(s) - 1)} ELSE {s}

old_pattern(s) ==
  \E t \in before_dollar(s) : \E k \in 2..(Len(t) - 1) :
    /\ t[k] = "/"
    /\ \A i \in 1..(k - 1) : t[i] \in Range(LowerCase) \cup {"-"}
    /\ \A i \in (k + 1)..Len(t) : t[i] \in Digits

new_pattern(s) ==
  \E t \in before_dollar(s) :
    /\ Len(t) \in {9, 10}
    /\ \A i \in 1..4 : t[i] \in Digits
    /\ t[5] = "."
    /\ \A i \in 6..Len(t) : t[i] \in Digits

_looks_like_arxiv(paper_id) == old_pattern(paper_id) \/ new_pattern(paper_id)

\* _detect_source with the DBLP test moved in front of the arXiv test.
_detect_source_dblp_first(paper_id) ==
  IF startswith(paper_id, S_10dot) \/ contains(lower(paper_id), S_doi_org) THEN "openalex"
  ELSE IF contains(paper_id, S_slash) /\ ~startswith(paper_id, S_http) THEN "dblp"
  ELSE IF startswith(lower(paper_id), S_arxiv_colon) \/ _looks_like_arxiv(paper_id) THEN "arxiv"
  ELSE IF Len(paper_id) = 40 /\ \A i \in 1..40 : isalnum(paper_id[i]) THEN "semantic_scholar"
  ELSE "openalex"

_detect_source(paper_id) ==
  IF startswith(paper_id, S_10dot) \/ contains(lower(paper_id), S_doi_org) THEN "openalex"
  ELSE IF startswith(lower(paper_id), S_arxiv_colon) \/ _looks_like_arxiv(paper_id) THEN "arxiv"
  ELSE IF contains(paper_id, S_slash) /\ ~startswith(paper_id, S_http) THEN "dblp"
  ELSE IF Len(paper_id) = 40 /\ \A i \in 1..40 : isalnum(paper_id[i]) THEN "semantic_scholar"
  ELSE "openalex"

\* A slip in the default list: Semantic Scholar is tried before CrossRef.
clients_to_try_swapped(source) ==
  CASE source = "dblp" -> <<"dblp", "openalex">>
    [] source = "arxiv" -> <<"arxiv", "openalex">>
    [] source = "semantic_scholar" -> <<"semantic_scholar", "openalex">>
    [] source = "crossref" -> <<"crossref", "openalex">>
    [] OTHER -> <<"openalex", "semantic_scholar", "crossref">>

clients_to_try(source) ==
  CASE source = "dblp" -> <<"dblp", "openalex">>
    [] source = "arxiv" -> <<"arxiv", "openalex">>
    [] source = "semantic_scholar" -> <<"semantic_scholar", "openalex">>
    [] source = "crossref" -> <<"crossref", "openalex">>
    [] OTHER -> <<"openalex", "crossref", "semantic_scholar">>

\* `if paper:` after a call that did not raise
found(r) == ~r.raised /\ r.result # NoPaper

\* the loop of get_paper after its second and its first adapter
get_paper_third(chain, paper_id, resps, r1, r2) ==
  LET c1 == Call(chain[1], r1)
      c2 == Call(chain[2], r2)
  IN IF found(r2) THEN Out(r2, <<c1, c2>>, r1.http \o r2.http)
     ELSE IF Len(chain) = 2
     THEN Out(Ret(r2.sc, r2.pc, r2.bc, NoPaper, <<>>), <<c1, c2>>, r1.http \o r2.http)
     ELSE the({ IF found(r3) THEN Out(r3, <<c1, c2, Call(chain[3], r3)>>, r1.http \o r2.http \o r3.http)
                ELSE Out(Ret(r3.sc, r3.pc, r3.bc, NoPaper, <<>>), <<c1, c2, Call(chain[3], r3)>>,
                         r1.http \o r2.http \o r3.http) :
                r3 \in {Client_get_paper(chain[3], r2.sc, r2.pc, r2.bc, paper_id, resps[3])} })

get_paper_second(chain, paper_id, resps, r1) ==
  IF found(r1) THEN Out(r1, <<Call(chain[1], r1)>>, r1.http)
  ELSE the({ get_paper_third(chain, paper_id, resps, r1, r2) :
             r2 \in {Client_get_paper(chain[2], r1.sc, r1.pc, r1.bc, paper_id, resps[2])} })

\* AcademicAggregator.get_paper; resps[i] answers the request of the i-th
\* adapter of the list.
Aggregator_get_paper(sc, pc, bc, paper_id, source, resps) ==
  LET chain == clients_to_try(IF source = "none" THEN _detect_source(paper_id) ELSE source)
  IN the({ get_paper_second(chain, paper_id, resps, r1) :
           r1 \in {Client_get_paper(chain[1], sc, pc, bc, paper_id, resps[1])} })

\* ------------------------------------------------------------ get_citations
OpenAlexCitesPerPage == 200

CitationResult(paper_id, citation_count, citing_papers, has_more) ==
  [paper_id |-> paper_id, citation_count |-> citation_count,
   citing_papers |-> citing_papers, has_more |-> has_more]

\* OpenAlexClient.get_citations after its paper lookup g
get_citations_of(g, paper_id, limit, offset, citing) ==
  LET paper == g.result
      openalex_id == IF startswith(paper.id, S_oa_url) THEN splitLast(paper.id) ELSE paper.id
      req == RequestFor("openalex", "works?filter=cites:{id}", openalex_id)
      parsed == [i \in 1..Len(citing.items) |-> OpenAlex_parse_work(citing.items[i])]
      citing_papers == slice(parsed, offset % OpenAlexCitesPerPage, limit)
  IN IF paper = NoPaper
     THEN Ret(g.sc, g.pc, g.bc, CitationResult(paper_id, 0, <<>>, FALSE), g.http)
     ELSE IF ~citing.ok
     THEN Ret(g.sc, g.pc, g.bc, CitationResult(paper_id, paper.citation_count, <<>>, FALSE),
              g.http \o <<req>>)
     ELSE Ret(g.sc, g.pc, g.bc,
              CitationResult(paper_id, paper.citation_count, citing_papers,
                             offset + Len(citing_papers) < citing.total),
              g.http \o <<req>>)

\* OpenAlexClient.get_citations: the paper lookup, then the citing works.
OpenAlex_get_citations(sc, pc, bc, paper_id, limit, offset, lookup, citing) ==
  the({ get_citations_of(g, paper_id, limit, offset, citing) :
        g \in {OpenAlex_get_paper(sc, pc, bc, paper_id, lookup)} })

\* AcademicAggregator.get_citations after OpenAlex raised
get_citations_fallback(r, p, paper_id) ==
  Out(Ret(p.sc, p.pc, p.bc,
          CitationResult(paper_id, IF p.result # NoPaper THEN p.result.citation_count ELSE 0,
                         <<>>, FALSE), <<>>),
      <<Call("openalex", r)>> \o p.calls, r.http \o p.http)

\* AcademicAggregator.get_citations; resps answers the paper lookup made
\* after OpenAlex raised.
Aggregator_get_citations(sc, pc, bc, paper_id, limit, offset, lookup, citing, resps) ==
  the({ IF ~r.raised THEN Out(r, <<Call("openalex", r)>>, r.http)
        ELSE the({ get_citations_fallback(r, p, paper_id) :
                   p \in {Aggregator_get_paper(r.sc, r.pc, r.bc, paper_id, "none", resps)} }) :
        r \in {OpenAlex_get_citations(sc, pc, bc, paper_id, limit, offset, lookup, citing)} })

\* -------------------------------------------------------- the paper machine
\* Identifiers: a DOI, an arXiv id, a DBLP key, a Semantic Scholar id and an
\* OpenAlex id.
Id_doi == <<"1","0",".","1","/","a">>
Id_arxiv == <<"a","r","x","i","v",":","1">>
Id_dblp == <<"j","/","k">>
Id_s2 == [i \in 1..40 |-> "a"]
Id_openalex == <<"W","1">>

PaperIds == {Id_doi, Id_arxiv, Id_dblp, Id_s2, Id_openalex}

\* get_paper(paper_id, source): every id with no source, one id with each source
PaperCalls == {<<id, "none">> : id \in PaperIds} \cup {<<Id_openalex, s>> : s \in PaperSource}

Work(id, doi, cites) == [Record(id, None, cites) EXCEPT !.doi = doi]

\* The record a backend holds for an identifier it is asked for.
Holds(adapter, paper_id) ==
  CASE adapter = "openalex" ->
         Work(S_oa_url \o (IF startswith(paper_id, S_W) THEN paper_id ELSE <<"W","9">>),
              IF startswith(paper_id, S_10dot) THEN S_https_doi \o paper_id
              ELSE IF startswith(paper_id, S_https_doi) THEN paper_id ELSE None,
              3)
    [] adapter = "dblp" -> Work(IF contains(paper_id, S_slash) THEN paper_id ELSE Id_dblp, None, 0)
    [] adapter = "semantic_scholar" ->
         Work(IF Len(paper_id) = 40 THEN paper_id ELSE [i \in 1..40 |-> "b"],
              IF startswith(paper_id, S_10dot) THEN paper_id ELSE None, 5)
    [] adapter = "arxiv" ->
         Work(S_arxiv_abs \o cut_prefix(paper_id, S_arxiv_colon) \o <<"v","1">>, None, 0)
    [] adapter = "crossref" -> Work(CrossRef_doi(paper_id), None, 2)

NotFound == Failed("HTTPStatusError")

\* The answers a backend can give to a lookup of paper_id: the request
\* fails, or it finds nothing, or it delivers the record.
PaperAnswers(adapter, paper_id) ==
  {NotFound, Json(<<Holds(adapter, paper_id)>>, 1, FALSE)}
    \cup (IF adapter \in {"dblp", "arxiv"} THEN {Json(<<>>, 0, FALSE)} ELSE {})

\* One answer per adapter of the list of get_paper.
ChainAnswers(chain, paper_id) ==
  {<<a, b, c>> : a \in PaperAnswers(chain[1], paper_id), b \in PaperAnswers(chain[2], paper_id),
                 c \in IF Len(chain) = 3 THEN PaperAnswers(chain[3], paper_id) ELSE {NotFound}}

\* an answer no request asked for is left out (it is NotFound)
OnlyAsked(resps, calls) ==
  \A i \in 1..Len(resps) : (i > Len(calls) \/ calls[i].http = 0) => resps[i] = NotFound

\* aggregator.get_paper(paper_id, source)
GetPaper ==
  /\ nops < MaxOps
  /\ \E pair \in PaperCalls :
       LET paper_id == pair[1]
           source == pair[2]
           chain == clients_to_try(IF source = "none" THEN _detect_source(paper_id) ELSE source)
       IN \E resps \in ChainAnswers(chain, paper_id) :
            \E r \in {Aggregator_get_paper(search_cache, paper_cache, bibtex_cache,
                                          paper_id, source, resps)} :
               /\ OnlyAsked(resps, r.calls)
               /\ search_cache' = r.sc
               /\ paper_cache' = r.pc
               /\ last' = Done("get_paper", source, [paper_id |-> paper_id], r)
  /\ nops' = nops + 1
  /\ UNCHANGED <<bibtex_cache, batch, cache, cache_ops, _aggregator, clients>>

CitationIds == {Id_openalex, Id_s2}

CitingResponses == {NotFound, Json(<<Work(S_oa_url \o <<"W","2">>, None, 1)>>, 2, FALSE)}

\* aggregator.get_citations(paper_id, limit=1): lookup and citing answer the
\* two requests of OpenAlex; held is the answer of the backend of the source
\* detected from paper_id to a lookup of paper_id, when that is not OpenAlex.
\* An answer no request asked for is left out.
GetCitations ==
  /\ nops < MaxOps
  /\ \E paper_id \in CitationIds :
       LET detected == _detect_source(paper_id)
       IN \E lookup \in PaperAnswers("openalex", paper_id), citing \in CitingResponses,
             held \in PaperAnswers(detected, paper_id) :
            \E r \in {Aggregator_get_citations(search_cache, paper_cache, bibtex_cache, paper_id,
                                              1, 0, lookup, citing, <<held, NotFound, NotFound>>)} :
               /\ lookup = NotFound \/ \E i \in 1..Len(r.http) : r.http[i].endpoint = "works/{id}"
               /\ citing = NotFound
                    \/ \E i \in 1..Len(r.http) : r.http[i].endpoint = "works?filter=cites:{id}"
               /\ detected = "openalex" => held = NotFound
               /\ search_cache' = r.sc
               /\ paper_cache' = r.pc
               /\ last' = Done("get_citations", "none",
                               [paper_id |-> paper_id, lookup |-> lookup, citing |-> citing,
                                held |-> held], r)
  /\ nops' = nops + 1
  /\ UNCHANGED <<bibtex_cache, batch, cache, cache_ops, _aggregator, clients>>

\* Time passes: the TTL of the oldest entries of the paper cache runs out.
PaperExpire ==
  /\ \E n \in 1..Len(paper_cache.data) : paper_cache' = APICache_expire(paper_cache, n)
  /\ UNCHANGED <<search_cache, bibtex_cache, last, nops, batch, cache, cache_ops, _aggregator, clients>>

NextPaper == GetPaper \/ GetCitations \/ PaperExpire

SpecPaper == Init /\ [][NextPaper]_vars

\* ---------------------------------------------- claims on get_paper, citations
null(c) == c.raised \/ c.result = NoPaper

\* C3: get_paper tries the adapters in the order fixed by the given or
\* detected source, [source, OpenAlex] for dblp, arxiv, semantic_scholar and
\* crossref and [OpenAlex, CrossRef, Semantic Scholar] otherwise; it returns
\* the first paper an adapter delivers and calls no adapter after it; it never
\* raises and returns null exactly when every adapter of the list returned
\* null or raised; a DOI for which the OpenAlex request fails and CrossRef
\* delivers a record yields the CrossRef paper, with the DOI asked for.
C3_GetPaperTriesAdaptersInOrder ==
  (last.op = "get_paper") =>
    LET id == last.args.paper_id
        src == IF last.source = "none" THEN _detect_source(id) ELSE last.source
        expected == IF src \in {"dblp", "arxiv", "semantic_scholar", "crossref"}
                    THEN <<src, "openalex">>
                    ELSE <<"openalex", "crossref", "semantic_scholar">>
        c == last.calls
        n == Len(c)
    IN /\ n \in 1..Len(expected)
       /\ \A i \in 1..n : c[i].adapter = expected[i]
       /\ \A i \in 1..(n - 1) : null(c[i])
       /\ ~last.raised
       /\ ~null(c[n]) => last.result = c[n].result
       /\ null(c[n]) => (n = Len(expected) /\ last.result = NoPaper)
       /\ (last.result = NoPaper) <=> (n = Len(expected) /\ \A i \in 1..n : null(c[i]))
       /\ (/\ last.source = "none" /\ startswith(id, S_10dot) /\ n >= 2
           /\ c[1].http = 1 /\ null(c[1]) /\ c[2].http = 1 /\ ~null(c[2]))
          => (last.result.source = "crossref" /\ last.result.doi = id)

\* OpenAlex failed for a DOI and the paper of CrossRef was returned
C3_Witness ==
  /\ last.op = "get_paper" /\ last.source = "none" /\ last.args.paper_id = Id_doi
  /\ Len(last.calls) = 2 /\ last.calls[1].http = 1 /\ null(last.calls[1])
  /\ last.result # NoPaper
  /\ last.result.source = "crossref" /\ last.result.doi = Id_doi

\* the citation count the backend's answer to a lookup reports
Reported(adapter, answer) ==
  IF ~answer.ok \/ answer.items = <<>> THEN 0
  ELSE (CASE adapter = "openalex" -> OpenAlex_parse_work(answer.items[1])
          [] adapter = "dblp" -> DBLP_parse_hit(answer.items[1])
          [] adapter = "semantic_scholar" -> Semantic_parse_paper(answer.items[1])
          [] adapter = "arxiv" -> Arxiv_parse_result(answer.items[1])
          [] adapter = "crossref" -> CrossRef_parse_work(answer.items[1])).citation_count

\* C7 (as claimed): get_citations asks OpenAlex first; when the paper lookup
\* of OpenAlex or its citing-works request fails, the result has no citing
\* papers, has_more false and the citation count that the source detected
\* from the id reports for the paper, 0 only when that source has no record.
C7_FailedCitationsCarryDetectedCount ==
  (/\ last.op = "get_citations"
   /\ last.http # <<>>
   /\ \/ (last.http[1].endpoint = "works/{id}" /\ ~last.args.lookup.ok)
      \/ (last.http[Len(last.http)].endpoint = "works?filter=cites:{id}" /\ ~last.args.citing.ok))
  => /\ last.calls[1].adapter = "openalex"
     /\ last.result.citing_papers = <<>>
     /\ ~last.result.has_more
     /\ last.result.citation_count
          = LET id == last.args.paper_id
                detected == _detect_source(id)
            IN IF detected # "openalex" THEN Reported(detected, last.args.held)
               ELSE IF last.http[1].endpoint = "works/{id}" /\ ~last.args.lookup.ok THEN 0
               ELSE Reported("openalex", Json(<<Holds("openalex", id)>>, 1, FALSE))

\* ------------------------------------------------------------------- bibtex
S_nl == <<"\n">>
S_at == <<"@">>
S_Unknown == <<"U","n","k","n","o","w","n">>
S_misc == <<"m","i","s","c">>
S_article == <<"a","r","t","i","c","l","e">>
S_inproceedings == <<"i","n","p","r","o","c","e","e","d","i","n","g","s">>
S_title == <<"t","i","t","l","e">>
S_journal == <<"j","o","u","r","n","a","l">>
S_booktitle == <<"b","o","o","k","t","i","t","l","e">>
S_year == <<"y","e","a","r">>
S_doi == <<"d","o","i">>
S_eprint == <<"e","p","r","i","n","t">>
S_url == <<"u","r","l">>
S_archiveprefix == <<" "," ","a","r","c","h","i","v","e","p","r","e","f","i","x"," ","="," ","{","a","r","X","i","v","}",",">>

conference_keywords ==
  << <<"c","o","n","f","e","r","e","n","c","e">>,
     <<"p","r","o","c","e","e","d","i","n","g","s">>,
     <<"w","o","r","k","s","h","o","p">>,
     <<"s","y","m","p","o","s","i","u","m">>,
     <<"i","c","m","l">>,
     <<"n","e","u","r","i","p","s">>,
     <<"i","c","l","r">>,
     <<"c","v","p","r">>,
     <<"i","c","c","v">>,
     <<"e","c","c","v">>,
     <<"a","c","l">>,
     <<"e","m","n","l","p">>,
     <<"n","a","a","c","l">>,
     <<"a","a","a","i">>,
     <<"i","j","c","a","i">>,
     <<"s","i","g","c","h","i">>,
     <<"s","i","g","m","o","d">>,
     <<"v","l","d","b">>,
     <<"i","c","s","e">>,
     <<"f","s","e">>,
     <<"i","s","s","t","a">>,
     <<"p","l","d","i">> >>

journal_keywords ==
  << <<"j","o","u","r","n","a","l">>,
     <<"t","r","a","n","s","a","c","t","i","o","n","s">>,
     <<"r","e","v","i","e","w">>,
     <<"l","e","t","t","e","r","s">>,
     <<"n","a","t","u","r","e">>,
     <<"s","c","i","e","n","c","e">>,
     <<"c","e","l","l">>,
     <<"l","a","n","c","e","t">>,
     <<"n","e","j","m">>,
     <<"i","e","e","e">>,
     <<"a","c","m">>,
     <<"s","p","r","i","n","g","e","r">>,
     <<"e","l","s","e","v","i","e","r">> >>

stop_words ==
  { <<"a">>, <<"a","n">>, <<"t","h","e">>, <<"o","n">>, <<"i","n">>, <<"o","f">>, <<"f","o","r">>, <<"t","o">>, <<"a","n","d">>, <<"w","i","t","h">> }

\* LATEX_ESCAPES on the ASCII characters (the accented letters of the table
\* are outside the alphabet of the model)
escape_char(c) ==
  CASE c \in {"&", "%", "$", "#", "_", "{", "}"} -> <<"\\", c>>
    [] c = "~" -> <<"{","\\","t","e","x","t","a","s","c","i","i","t","i","l","d","e","}">>
    [] c = "^" -> <<"{","\\","t","e","x","t","a","s","c","i","i","c","i","r","c","u","m","}">>
    [] OTHER -> <<c>>

RECURSIVE escape_latex(_)
escape_latex(text) ==
  IF text = <<>> THEN <<>> ELSE escape_char(Head(text)) \o escape_latex(Tail(text))

isalpha(c) == c \in Range(UpperCase) \/ c \in Range(LowerCase)
iswordchar(c) == isalnum(c) \/ c = "_"

upperChar(c) == IF \E i \in 1..26 : LowerCase[i] = c
                THEN UpperCase[CHOOSE i \in 1..26 : LowerCase[i] = c]
                ELSE c

\* str.capitalize()
capitalize(s) == [i \in 1..Len(s) |-> IF i = 1 THEN upperChar(s[i]) ELSE lowerChar(s[i])]

\* re.findall(r"\b[a-zA-Z]+\b", s) from position i, a start of a run: the
\* maximal runs of letters that no digit and no underscore touches
RECURSIVE words(_, _)
words(s, i) ==
  IF i > Len(s) THEN <<>>
  ELSE IF ~isalpha(s[i]) THEN words(s, i + 1)
  ELSE LET j == CHOOSE j \in i..Len(s) :
                  /\ \A k \in i..j : isalpha(s[k])
                  /\ j = Len(s) \/ ~isalpha(s[j + 1])
           bounded == /\ i = 1 \/ ~iswordchar(s[i - 1])
                      /\ j = Len(s) \/ ~iswordchar(s[j + 1])
       IN (IF bounded THEN <<SubSeq(s, i, j)>> ELSE <<>>) \o words(s, j + 1)

RECURSIVE first_significant(_)
first_significant(ws) ==
  IF ws = <<>> THEN <<>>
  ELSE IF lower(ws[1]) \in stop_words THEN first_significant(Tail(ws))
  ELSE capitalize(ws[1])

\* generate_bibtex_key for a paper without authors
generate_bibtex_key(paper) ==
  S_Unknown
    \o (IF paper.year # NoInt /\ paper.year # <<0>> THEN str_int(paper.year[1]) ELSE <<>>)
    \o (IF truthy(paper.title) THEN first_significant(words(paper.title, 1)) ELSE <<>>)

determine_entry_type(paper) ==
  LET venue_lower == IF truthy(paper.venue) THEN lower(paper.venue) ELSE <<>>
  IN IF truthy(paper.arxiv_id) \/ contains(venue_lower, S_arxiv) THEN S_misc
     ELSE IF \E i \in 1..Len(conference_keywords) : contains(venue_lower, conference_keywords[i])
     THEN S_inproceedings
     ELSE IF \E i \in 1..Len(journal_keywords) : contains(venue_lower, journal_keywords[i])
     THEN S_article
     ELSE S_misc

\* one field line of an entry
field(name, value) == <<" ", " ">> \o name \o <<" ", "=", " ", "{">> \o value \o <<"}", ",">>

\* generate_bibtex(paper) with no custom key
generate_bibtex(paper) ==
  LET entry_type == determine_entry_type(paper)
      key == IF truthy(paper.bibtex_key) THEN paper.bibtex_key ELSE generate_bibtex_key(paper)
      lines ==
        << S_at \o entry_type \o <<"{">> \o key \o <<",">> >>
        \o (IF truthy(paper.title) THEN <<field(S_title, escape_latex(paper.title))>> ELSE <<>>)
        \o (IF entry_type = S_article /\ truthy(paper.venue)
            THEN <<field(S_journal, escape_latex(paper.venue))>>
            ELSE IF entry_type = S_inproceedings /\ truthy(paper.venue)
            THEN <<field(S_booktitle, escape_latex(paper.venue))>> ELSE <<>>)
        \o (IF paper.year # NoInt /\ paper.year # <<0>>
            THEN <<field(S_year, str_int(paper.year[1]))>> ELSE <<>>)
        \o (IF truthy(paper.doi) THEN <<field(S_doi, paper.doi)>> ELSE <<>>)
        \o (IF truthy(paper.arxiv_id)
            THEN <<field(S_eprint, paper.arxiv_id), S_archiveprefix>> ELSE <<>>)
        \o (IF truthy(paper.url) THEN <<field(S_url, paper.url)>> ELSE <<>>)
      n == Len(lines)
      chopped == [lines EXCEPT ![n] = SubSeq(lines[n], 1, Len(lines[n]) - 1)]
  IN join(S_nl, chopped \o << <<"}">> >>)

\* DBLPClient.get_bibtex after the direct fetch was not taken: search for the
\* id with limit=1 and fetch the .bib of the first hit
DBLP_get_bibtex_by_search(r, key, http, fetch) ==
  LET papers == r.result.papers
      body == strip(fetch.text)
  IN IF r.raised THEN Ret(r.sc, r.pc, r.bc, None, http \o r.http)
     ELSE IF papers = <<>> \/ ~truthy(papers[1].id)
     THEN Ret(r.sc, r.pc, r.bc, None, http \o r.http)
     ELSE IF fetch.ok /\ body # <<>> /\ startswith(body, S_at)
     THEN Ret(r.sc, r.pc, APICache_set(r.bc, key, body), body,
              http \o r.http \o <<RequestFor("dblp", "rec/{dblp_key}.bib", papers[1].id)>>)
     ELSE Ret(r.sc, r.pc, r.bc, None,
              http \o r.http \o <<RequestFor("dblp", "rec/{dblp_key}.bib", papers[1].id)>>)

\* DBLPClient.get_bibtex; direct, search and fetch answer its three requests
DBLP_get_bibtex(sc, pc, bc, paper_id, direct, search, fetch) ==
  LET key == bibtex_key(S_dblp_colon \o paper_id)
      c1 == APICache_get(bc, key)
      is_key == contains(paper_id, S_slash)
      http == IF is_key THEN <<RequestFor("dblp", "rec/{paper_id}.bib", paper_id)>> ELSE <<>>
      body == strip(direct.text)
      a == [query |-> paper_id, limit |-> 1, offset |-> 0, sort |-> None,
            year_from |-> NoInt, year_to |-> NoInt, venue |-> None]
  IN IF Has(bc, key) THEN Ret(sc, pc, c1, Value(bc, key), <<>>)
     ELSE IF /\ is_key /\ direct.ok /\ body # <<>>
             /\ (startswith(body, S_at) \/ contains(body, S_author_eq))
     THEN Ret(sc, pc, APICache_set(c1, key, body), body, http)
     ELSE the({ DBLP_get_bibtex_by_search(r, key, http, fetch) :
                r \in {DBLP_search(sc, pc, c1, a, search)} })

\* A slip: a generated entry is returned but not put into the cache.
get_bibtex_from_paper_unstored(p, key, calls, http) ==
  IF p.result # NoPaper
  THEN the({ Out(Ret(p.sc, p.pc, p.bc, bibtex, <<>>),
                 calls \o p.calls \o <<Call("generate_bibtex", Ret(p.sc, p.pc, p.bc, bibtex, <<>>))>>,
                 http \o p.http) :
             bibtex \in {generate_bibtex(p.result)} })
  ELSE Out(Ret(p.sc, p.pc, p.bc, None, <<>>), calls \o p.calls, http \o p.http)

\* AcademicAggregator.get_bibtex from the paper lookup on
get_bibtex_from_paper(p, key, calls, http) ==
  IF p.result # NoPaper
  THEN the({ Out(Ret(p.sc, p.pc, APICache_set(p.bc, key, bibtex), bibtex, <<>>),
                 calls \o p.calls \o <<Call("generate_bibtex", Ret(p.sc, p.pc, p.bc, bibtex, <<>>))>>,
                 http \o p.http) :
             bibtex \in {generate_bibtex(p.result)} })
  ELSE Out(Ret(p.sc, p.pc, p.bc, None, <<>>), calls \o p.calls, http \o p.http)

\* A slip: the paper is looked up whatever DBLP returned.
get_bibtex_after_dblp_ignored(d, key, paper_id, resps) ==
  the({ get_bibtex_from_paper(p, key, <<Call("dblp.get_bibtex", d)>>, d.http) :
        p \in {Aggregator_get_paper(d.sc, d.pc, d.bc, paper_id, "none", resps)} })

\* AcademicAggregator.get_bibtex after dblp.get_bibtex handed back d
get_bibtex_after_dblp(d, key, paper_id, resps) ==
  IF ~d.raised /\ truthy(d.result)
  THEN Out(Ret(d.sc, d.pc, APICache_set(d.bc, key, d.result), d.result, <<>>),
           <<Call("dblp.get_bibtex", d)>>, d.http)
  ELSE the({ get_bibtex_from_paper(p, key, <<Call("dblp.get_bibtex", d)>>, d.http) :
             p \in {Aggregator_get_paper(d.sc, d.pc, d.bc, paper_id, "none", resps)} })

\* AcademicAggregator.get_bibtex; direct, search and fetch answer the requests
\* of dblp.get_bibtex, resps those of the paper lookup.
Aggregator_get_bibtex(sc, pc, bc, paper_id, use_dblp, direct, search, fetch, resps) ==
  LET key == bibtex_key(paper_id)
      c1 == APICache_get(bc, key)
  IN IF Has(bc, key) THEN Out(Ret(sc, pc, c1, Value(bc, key), <<>>), <<>>, <<>>)
     ELSE IF use_dblp
     THEN the({ get_bibtex_after_dblp(d, key, paper_id, resps) :
                d \in {DBLP_get_bibtex(sc, pc, c1, paper_id, direct, search, fetch)} })
     ELSE the({ get_bibtex_from_paper(p, key, <<>>, <<>>) :
                p \in {Aggregator_get_paper(sc, pc, c1, paper_id, "none", resps)} })

\* ------------------------------------------------------- the bibtex machine
BibtexIds == {Id_dblp, Id_openalex}

\* The answers of dblp.org to the direct request of a .bib file: the request
\* fails, or the body is an entry (with white space around it), or it is a
\* fragment that holds "author =" and does not start with "@".  The request
\* for the .bib file of the first hit fails or delivers an entry.
Bib_entry == <<" ", "@", "a", "\n">>

BibAnswers == {NotFound, Text(Bib_entry), Text(S_author_eq)}

\* The answers of dblp.org to the search of get_bibtex: it fails or has a hit.
BibSearchAnswers(paper_id) == {NotFound, Json(<<Holds("dblp", paper_id)>>, 1, FALSE)}

acceptable(answer, any) ==
  /\ answer.ok /\ strip(answer.text) # <<>>
  /\ startswith(strip(answer.text), S_at) \/ (any /\ contains(strip(answer.text), S_author_eq))

\* the calls of get_paper among the calls of a handler
RECURSIVE lookups(_)
lookups(calls) ==
  IF calls = <<>> THEN <<>>
  ELSE (IF calls[1].adapter \in PaperSource THEN <<calls[1]>> ELSE <<>>) \o lookups(Tail(calls))

\* the endpoints dblp.get_bibtex asked, when it was the first call
asked_of_dblp(r) ==
  IF r.calls # <<>> /\ r.calls[1].adapter = "dblp.get_bibtex"
  THEN {r.http[i].endpoint : i \in 1..r.calls[1].http}
  ELSE {}

\* aggregator.get_bibtex(paper_id, use_dblp); an answer no request asked for
\* is left out (it is NotFound).
GetBibtex ==
  /\ nops < MaxOps
  /\ \E paper_id \in BibtexIds, use_dblp \in BOOLEAN :
     \E direct \in BibAnswers, search \in BibSearchAnswers(paper_id),
        fetch \in {NotFound, Text(Bib_entry)} :
     \E resps \in ChainAnswers(clients_to_try(_detect_source(paper_id)), paper_id) :
       /\ ~use_dblp => (direct = NotFound /\ search = NotFound /\ fetch = NotFound)
       /\ ~contains(paper_id, S_slash) => direct = NotFound
       /\ (acceptable(direct, TRUE) \/ acceptable(fetch, FALSE)) => resps = <<NotFound, NotFound, NotFound>>
       /\ acceptable(direct, TRUE) => (search = NotFound /\ fetch = NotFound)
       /\ \E r \in {Aggregator_get_bibtex(search_cache, paper_cache, bibtex_cache, paper_id,
                                          use_dblp, direct, search, fetch, resps)} :
            /\ direct = NotFound \/ "rec/{paper_id}.bib" \in asked_of_dblp(r)
            /\ search = NotFound \/ "search/publ/api" \in asked_of_dblp(r)
            /\ fetch = NotFound \/ "rec/{dblp_key}.bib" \in asked_of_dblp(r)
            /\ OnlyAsked(resps, lookups(r.calls))
            /\ search_cache' = r.sc
            /\ paper_cache' = r.pc
            /\ bibtex_cache' = r.bc
            /\ last' = Done("get_bibtex", "none",
                            [paper_id |-> paper_id, use_dblp |-> use_dblp,
                             direct |-> direct, fetch |-> fetch], r)
  /\ nops' = nops + 1
  /\ UNCHANGED <<batch, cache, cache_ops, _aggregator, clients>>

\* Time passes: the TTL of the oldest entries of the bibtex cache runs out.
BibtexExpire ==
  /\ \E n \in 1..Len(bibtex_cache.data) : bibtex_cache' = APICache_expire(bibtex_cache, n)
  /\ UNCHANGED <<search_cache, paper_cache, last, nops, batch, cache, cache_ops, _aggregator, clients>>

NextBibtex == GetBibtex \/ BibtexExpire

SpecBibtex == Init /\ [][NextBibtex]_vars

\* ------------------------------------------------------ claims on get_bibtex
null_bib(c) == c.raised \/ ~truthy(c.result)

C4_Step ==
  (/\ nops' = nops + 1 /\ last'.op = "get_bibtex" /\ last'.args.use_dblp
   /\ ~Has(bibtex_cache, bibtex_key(last'.args.paper_id))) =>
    LET c == last'.calls
        a == last'.args
        looked == lookups(c)
        asked == asked_of_dblp(last')
    IN /\ c # <<>> /\ c[1].adapter = "dblp.get_bibtex"
       /\ ~null_bib(c[1]) => (Len(c) = 1 /\ ~last'.raised /\ last'.result = c[1].result)
       /\ ("rec/{paper_id}.bib" \in asked /\ a.direct.ok /\ startswith(strip(a.direct.text), S_at))
            => (Len(c) = 1 /\ last'.result = strip(a.direct.text))
       /\ ("rec/{dblp_key}.bib" \in asked /\ a.fetch.ok /\ startswith(strip(a.fetch.text), S_at))
            => (Len(c) = 1 /\ last'.result = strip(a.fetch.text))
       /\ null_bib(c[1]) =>
            /\ looked # <<>>
            /\ \A i \in 2..Len(c) : c[i].adapter \in PaperSource \cup {"generate_bibtex"}
            /\ (last'.result = None) <=> (\A i \in 1..Len(looked) : null(looked[i]))
            /\ (\E i \in 1..Len(looked) : ~null(looked[i])) =>
                 /\ c[Len(c)].adapter = "generate_bibtex"
                 /\ last'.result = c[Len(c)].result
                 /\ last'.result = generate_bibtex(looked[Len(looked)].result)
            /\ (\A i \in 1..Len(looked) : null(looked[i])) =>
                 \A i \in 1..Len(c) : c[i].adapter # "generate_bibtex"

\* C4: get_bibtex with use_dblp and no entry held for the id calls
\* dblp.get_bibtex before any paper lookup; when that returns an entry, the
\* entry (the trimmed body of a .bib answer that starts with "@") is the
\* result and neither a paper lookup nor generate_bibtex is called; when it
\* returns nothing, the paper is looked up and handed to generate_bibtex, and
\* the result is null exactly when the lookup finds no paper.
C4_DblpNativeEntryComesFirst == [][C4_Step]_vars

\* the entry of DBLP was returned, trimmed, and nothing else was called
C4_Witness ==
  /\ last.op = "get_bibtex" /\ last.args.use_dblp
  /\ Len(last.calls) = 1 /\ last.calls[1].adapter = "dblp.get_bibtex"
  /\ last.calls[1].http = 1 /\ last.args.direct = Text(Bib_entry)
  /\ last.result = <<"@", "a">>

C6_Call ==
  (nops' = nops + 1 /\ last'.op = "get_bibtex") =>
    LET key == bibtex_key(last'.args.paper_id)
    IN IF Has(bibtex_cache, key)
       THEN /\ last'.result = Value(bibtex_cache, key)
            /\ last'.calls = <<>> /\ last'.http = <<>>
            /\ bibtex_cache'.data = bibtex_cache.data
       ELSE /\ last'.result # None => /\ Has(bibtex_cache', key)
                                      /\ Value(bibtex_cache', key) = last'.result
            /\ last'.result = None => ~Has(bibtex_cache', key)

\* an entry stays as stored until its TTL runs out (or the cache is full)
C6_Kept ==
  /\ \A k \in Keys(bibtex_cache) \cap Keys(bibtex_cache') :
       Value(bibtex_cache', k) = Value(bibtex_cache, k)
  /\ (nops' = nops + 1 /\ Len(bibtex_cache'.data) < bibtex_cache.maxsize)
       => Keys(bibtex_cache) \subseteq Keys(bibtex_cache')

NetworkPageLimit == 20

CitationNetworkNode(paper) ==
  [paper_id |-> paper.id, title |-> paper.title, year |-> paper.year,
   citation_count |-> paper.citation_count]

CitationNetworkEdge(source, target) == [source |-> source, target |-> target]

\* nodes.append(...); edges.append(...); seen_ids.add(paper.id)
with_node(net, paper, edge) ==
  [net EXCEPT !.nodes = Append(@, CitationNetworkNode(paper)),
              !.edges = Append(@, edge),
              !.seen_ids = @ \cup {paper.id}]

RECURSIVE add_citing(_, _, _, _)
\* the loop over citations.citing_papers
add_citing(net, citing_papers, center, max_nodes) ==
  IF citing_papers = <<>> THEN net
  ELSE LET citing_paper == citing_papers[1]
       IN add_citing(IF citing_paper.id \notin net.seen_ids /\ Len(net.nodes) < max_nodes
                     THEN with_node(net, citing_paper,
                                    CitationNetworkEdge(citing_paper.id, center.id))
                     ELSE net,
                     Tail(citing_papers), center, max_nodes)

RECURSIVE add_references(_, _, _, _, _)
\* the loop over referenced_ids; held[id] answers the lookup of id
add_references(net, referenced_ids, center, max_nodes, held) ==
  IF referenced_ids = <<>> THEN net
  ELSE LET ref_id == referenced_ids[1]
       IN IF ref_id \notin net.seen_ids /\ Len(net.nodes) < max_nodes
          THEN the({ add_references(
                       IF g.result # NoPaper
                       THEN with_node([net EXCEPT !.sc = g.sc, !.pc = g.pc, !.bc = g.bc,
                                                  !.http = @ \o g.http],
                                      g.result, CitationNetworkEdge(center.id, g.result.id))
                       ELSE [net EXCEPT !.sc = g.sc, !.pc = g.pc, !.bc = g.bc,
                                        !.http = @ \o g.http],
                       Tail(referenced_ids), center, max_nodes, held) :
                     g \in {OpenAlex_get_paper(net.sc, net.pc, net.bc, splitLast(ref_id),
                                               held[splitLast(ref_id)])} })
          ELSE add_references(net, Tail(referenced_ids), center, max_nodes, held)

\* the citing half of get_citation_network
network_citing(net, paper_id, center, max_nodes, direction, lookup, citing) ==
  IF direction \in {"citing", "both"} /\ Len(net.nodes) < max_nodes
  THEN the({ add_citing([net EXCEPT !.sc = c.sc, !.pc = c.pc, !.bc = c.bc, !.http = @ \o c.http],
                        c.result.citing_papers, center, max_nodes) :
             c \in {OpenAlex_get_citations(net.sc, net.pc, net.bc, paper_id,
                                           Min(NetworkPageLimit, max_nodes - Len(net.nodes)), 0,
                                           lookup, citing)} })
  ELSE net

\* the references half of get_citation_network; a failure of the request for
\* the work is caught and logged
network_references(net, center, max_nodes, direction, work, held) ==
  IF direction \in {"cited", "both"} /\ Len(net.nodes) < max_nodes
  THEN LET work_id == IF startswith(center.id, S_https) THEN splitLast(center.id) ELSE center.id
           asked == [net EXCEPT !.http = @ \o <<RequestFor("openalex", "works/{work_id}", work_id)>>]
           refs == work.items[1].refs
       IN IF ~work.ok THEN asked
          ELSE add_references(asked,
                              SubSeq(refs, 1, Min(Len(refs),
                                                  Min(NetworkPageLimit, max_nodes - Len(net.nodes)))),
                              center, max_nodes, held)
  ELSE net

\* the network handed back
network_result(net, center, depth) ==
  Ret(net.sc, net.pc, net.bc,
      [center_paper_id |-> center.id, nodes |-> net.nodes, edges |-> net.edges, depth |-> depth],
      net.http)

\* OpenAlexClient.get_citation_network after the lookup g of the center
get_citation_network_of(g, paper_id, depth, max_nodes, direction, lookup, citing, work, held) ==
  LET center == g.result
  IN IF center = NoPaper
     THEN Ret(g.sc, g.pc, g.bc,
              [nodes |-> <<>>, edges |-> <<>>, center_paper_id |-> paper_id], g.http)
     ELSE the({ the({ network_result(n2, center, depth) :
                      n2 \in {network_references(n1, center, max_nodes, direction, work, held)} }) :
                n1 \in {network_citing([sc |-> g.sc, pc |-> g.pc, bc |-> g.bc, http |-> g.http,
                                        nodes |-> <<CitationNetworkNode(center)>>,
                                        edges |-> <<>>, seen_ids |-> {center.id}],
                                       paper_id, center, max_nodes, direction, lookup, citing)} })

OpenAlex_get_citation_network(sc, pc, bc, paper_id, depth, max_nodes, direction, lookup, citing, work, held) ==
  the({ get_citation_network_of(g, paper_id, depth, max_nodes, direction, lookup, citing,
                                work, held) :
        g \in {OpenAlex_get_paper(sc, pc, bc, paper_id, lookup)} })

\* AcademicAggregator.get_citation_network hands the call to OpenAlex.
Aggregator_get_citation_network(sc, pc, bc, paper_id, depth, max_nodes, direction, lookup, citing, work, held) ==
  the({ Out(r, <<Call("openalex", r)>>, r.http) :
        r \in {OpenAlex_get_citation_network(sc, pc, bc, paper_id, depth, max_nodes, direction,
                                             lookup, citing, work, held)} })

\* ------------------------------------------------------ the network machine
MaxNetworkCalls == 1
MaxNodes == 3

Id_W2 == <<"W","2">>
Id_W3 == <<"W","3">>

Directions == {"citing", "cited", "both"}

\* The works that cite the center, as OpenAlex lists them.
CitingLists ==
  { <<Holds("openalex", Id_W2)>>, <<Holds("openalex", Id_W2), Holds("openalex", Id_W3)>> }

\* referenced_works of the center: OpenAlex ids in URL form.  The center may
\* reference itself, an id may repeat, and a referenced work may cite the
\* center as well.
ReferencedWorks ==
  { <<>>, <<S_oa_url \o Id_openalex>>, <<S_oa_url \o Id_W2>>, <<S_oa_url \o Id_W3>>,
    <<S_oa_url \o Id_W2, S_oa_url \o Id_W2>>, <<S_oa_url \o Id_W2, S_oa_url \o Id_W3>> }

\* an answer no request asked for is left out (it is NotFound)
network_asked(r, lookup, citing, work, delivered) ==
  LET asked(endpoint, id) ==
        \E i \in 1..Len(r.http) : r.http[i].endpoint = endpoint /\ r.http[i].id = id
  IN /\ lookup = NotFound \/ asked("works/{id}", Id_openalex)
     /\ citing = NotFound \/ asked("works?filter=cites:{id}", Id_openalex)
     /\ work = NotFound \/ asked("works/{work_id}", Id_openalex)
     /\ \A id \in delivered : asked("works/{id}", id)

\* aggregator.get_citation_network(paper_id, 1, max_nodes, direction): lookup
\* answers the request for the center, citing the request for the works that
\* cite it, work the request for its referenced_works, and the works in delivered
\* are those OpenAlex delivers when a referenced work is looked up.
GetCitationNetwork ==
  /\ nops < MaxNetworkCalls
  /\ \E direction \in Directions, max_nodes \in 1..MaxNodes,
        lookup \in PaperAnswers("openalex", Id_openalex),
        citing \in {NotFound} \cup {Json(l, Len(l), FALSE) : l \in CitingLists},
        refs \in ReferencedWorks, failed \in BOOLEAN, delivered \in SUBSET {Id_W2, Id_W3} :
       LET known == Has(paper_cache, paper_key(S_openalex, Id_openalex))
           work == IF failed THEN NotFound
                   ELSE Json(<<[Holds("openalex", Id_openalex) EXCEPT !.refs = refs]>>, 1, FALSE)
           held == [id \in {Id_openalex, Id_W2, Id_W3} |->
                      IF id \in delivered THEN Json(<<Holds("openalex", id)>>, 1, FALSE)
                      ELSE NotFound]
       IN /\ known => lookup = NotFound
          /\ (~known /\ lookup = NotFound) => (citing = NotFound /\ failed)
          /\ (direction = "cited" \/ max_nodes = 1) => citing = NotFound
          /\ (direction = "citing" \/ max_nodes = 1) => failed
          /\ failed => (refs = <<>> /\ delivered = {})
          /\ delivered \subseteq {splitLast(u) : u \in Range(refs)}
          /\ \E r \in {Aggregator_get_citation_network(search_cache, paper_cache, bibtex_cache,
                                                      Id_openalex, 1, max_nodes, direction,
                                                      lookup, citing, work, held)} :
               /\ network_asked(r, lookup, citing, work, delivered)
               /\ search_cache' = r.sc
               /\ paper_cache' = r.pc
               /\ last' = Done("get_citation_network", "none",
                               [paper_id |-> Id_openalex, max_nodes |-> max_nodes,
                                direction |-> direction, center_found |-> (known \/ lookup.ok),
                                citing |-> citing, work |-> work, delivered |-> delivered], r)
  /\ nops' = nops + 1
  /\ UNCHANGED <<bibtex_cache, batch, cache, cache_ops, _aggregator, clients>>

NextNetwork == GetCitationNetwork \/ PaperExpire

SpecNetwork == Init /\ [][NextNetwork]_vars

\* ------------------------------------------- claims on get_citation_network
\* C8: for every direction and every max_nodes >= 1, the nodes of the network
\* around a center that was found contain the center, have pairwise distinct
\* paper_id values, and are at most max_nodes.
C8_NodesAreDistinctAndBounded ==
  (last.op = "get_citation_network" /\ last.args.center_found) =>
    LET nodes == last.result.nodes
    IN /\ \E i \in 1..Len(nodes) : nodes[i].paper_id = last.result.center_paper_id
       /\ \A i, j \in 1..Len(nodes) : i # j => nodes[i].paper_id # nodes[j].paper_id
       /\ Len(nodes) <= last.args.max_nodes

\* C9: every edge of the network joins the center and a node that is not the
\* center, a citing work as (work, center) and a referenced work as (center,
\* work); every node that is not the center has exactly one edge, so that
\* there is one edge less than there are nodes.
C9_EveryOtherNodeHasOneEdge ==
  (last.op = "get_citation_network" /\ last.args.center_found) =>
    LET nodes == last.result.nodes
        edges == last.result.edges
        center == last.result.center_paper_id
        others == {nodes[i].paper_id : i \in 1..Len(nodes)} \ {center}
        other(e) == IF e.source = center THEN e.target ELSE e.source
    IN /\ \A k \in 1..Len(edges) :
            /\ (edges[k].source = center) # (edges[k].target = center)
            /\ other(edges[k]) \in others
       /\ \A i \in 1..Len(nodes) :
            nodes[i].paper_id # center =>
              Cardinality({k \in 1..Len(edges) : other(edges[k]) = nodes[i].paper_id}) = 1
       /\ Len(edges) = Len(nodes) - 1

\* --------------------------------------------------------- get_bibtex_batch
\* asyncio.gather runs one get_bibtex per id as a task.  A task runs without
\* interruption from one suspension point to the next; it is suspended while
\* the answer to an HTTP request is outstanding.  A task is
\* [at, k, key, http, result, raised]: where it waits ("created" before its
\* first step, "direct", "search", "fetch" inside dblp.get_bibtex, "lookup"
\* inside the k-th client of get_paper, "done"), the DBLP key it fetches, the
\* requests it has issued, and what it returned or whether it raised.
NewTask == [at |-> "created", k |-> 0, key |-> None, http |-> <<>>, result |-> NoResult,
            raised |-> FALSE]

\* an id that is no string has no lower() and no `in`
is_str(paper_id) == paper_id # None

\* f"{paper_id}"
format(paper_id) == IF is_str(paper_id) THEN paper_id ELSE S_None

\* the task waits for the answer to req
Waiting(c, t, at, req) ==
  [sc |-> c.sc, pc |-> c.pc, bc |-> c.bc,
   task |-> [t EXCEPT !.at = at, !.http = Append(@, req)]]

\* get_bibtex returns
Returned(c, t, result) ==
  [sc |-> c.sc, pc |-> c.pc, bc |-> c.bc, task |-> [t EXCEPT !.at = "done", !.result = result]]

\* get_bibtex raises
Raised(c, t) ==
  [sc |-> c.sc, pc |-> c.pc, bc |-> c.bc, task |-> [t EXCEPT !.at = "done", !.raised = TRUE]]

\* get_bibtex once get_paper has handed back paper
task_paper(c, t, paper_id, paper) ==
  the({ Returned(o, t, o.result) :
        o \in {get_bibtex_from_paper(Out(Ret(c.sc, c.pc, c.bc, paper, <<>>), <<>>, <<>>),
                                     bibtex_key(format(paper_id)), <<>>, <<>>)} })

RECURSIVE task_get_paper(_, _, _, _)
\* the loop of get_paper from the k-th client on, up to the next request
task_get_paper(c, t, paper_id, k) ==
  LET chain == clients_to_try(_detect_source(paper_id))
  IN IF k > Len(chain) THEN task_paper(c, t, paper_id, NoPaper)
     ELSE the({ IF r.http # <<>>
                THEN Waiting(r, [t EXCEPT !.k = k], "lookup", r.http[1])
                ELSE IF found(r) THEN task_paper(r, t, paper_id, r.result)
                ELSE task_get_paper(r, t, paper_id, k + 1) :
                r \in {Client_get_paper(chain[k], c.sc, c.pc, c.bc, paper_id, NotFound)} })

\* `paper = await self.get_paper(paper_id)`: _detect_source raises for an id
\* that is no string
task_lookup(c, t, paper_id) ==
  IF is_str(paper_id) THEN task_get_paper(c, t, paper_id, 1) ELSE Raised(c, t)

\* the k-th client of get_paper has its answer
task_lookup_answered(c, t, paper_id, resp) ==
  LET chain == clients_to_try(_detect_source(paper_id))
  IN the({ IF found(r) THEN task_paper(r, t, paper_id, r.result)
           ELSE task_get_paper(r, t, paper_id, t.k + 1) :
           r \in {Client_get_paper_answered(chain[t.k], c.sc, c.pc, c.bc, paper_id, resp)} })

\* dblp.get_bibtex returned an entry: the aggregator stores and returns it
task_native(c, t, paper_id, bibtex) ==
  Returned([c EXCEPT !.bc = APICache_set(@, bibtex_key(format(paper_id)), bibtex)], t, bibtex)

\* dblp.get_bibtex stores the entry under its own key and returns it
task_dblp_entry(c, t, paper_id, bibtex) ==
  task_native([c EXCEPT !.bc = APICache_set(@, bibtex_key(S_dblp_colon \o format(paper_id)),
                                           bibtex)],
              t, paper_id, bibtex)

\* dblp.get_bibtex after `result = await self.search(paper_id, limit=1)`
task_dblp_hit(r, t, paper_id) ==
  LET papers == r.result.papers
  IN IF r.raised \/ papers = <<>> \/ ~truthy(papers[1].id) THEN task_lookup(r, t, paper_id)
     ELSE Waiting(r, [t EXCEPT !.key = papers[1].id], "fetch",
                  RequestFor("dblp", "rec/{dblp_key}.bib", papers[1].id))

DBLP_get_bibtex_query(paper_id) ==
  [query |-> paper_id, limit |-> 1, offset |-> 0, sort |-> None,
   year_from |-> NoInt, year_to |-> NoInt, venue |-> None]

\* dblp.get_bibtex from its search on, up to the next request
task_dblp_search(c, t, paper_id) ==
  the({ IF r.http # <<>> THEN Waiting(r, t, "search", r.http[1])
        ELSE task_dblp_hit(r, t, paper_id) :
        r \in {DBLP_search(c.sc, c.pc, c.bc, DBLP_get_bibtex_query(paper_id), NotFound)} })

\* the search of dblp.get_bibtex has its answer
task_dblp_search_answered(c, t, paper_id, resp) ==
  the({ task_dblp_hit(r, t, paper_id) :
        r \in {DBLP_search_answered(c.sc, c.pc, c.bc, DBLP_get_bibtex_query(paper_id), resp)} })

\* the direct fetch of dblp.get_bibtex has its answer
task_dblp_direct_answered(c, t, paper_id, resp) ==
  LET bibtex == strip(resp.text)
  IN IF /\ resp.ok /\ bibtex # <<>>
        /\ (startswith(bibtex, S_at) \/ contains(bibtex, S_author_eq))
     THEN task_dblp_entry(c, t, paper_id, bibtex)
     ELSE task_dblp_search(c, t, paper_id)

\* the fetch of the first hit has its answer
task_dblp_fetch_answered(c, t, paper_id, resp) ==
  LET bibtex == strip(resp.text)
  IN IF resp.ok /\ bibtex # <<>> /\ startswith(bibtex, S_at)
     THEN task_dblp_entry(c, t, paper_id, bibtex)
     ELSE task_lookup(c, t, paper_id)

\* `bibtex = await self.dblp.get_bibtex(paper_id)` up to its first request;
\* `"/" in paper_id` raises for an id that is no string, which get_bibtex
\* catches
task_dblp(c, t, paper_id) ==
  LET key == bibtex_key(S_dblp_colon \o format(paper_id))
      c1 == [c EXCEPT !.bc = APICache_get(@, key)]
  IN IF Has(c.bc, key) THEN task_native(c1, t, paper_id, Value(c.bc, key))
     ELSE IF ~is_str(paper_id) THEN task_lookup(c1, t, paper_id)
     ELSE IF contains(paper_id, S_slash)
     THEN Waiting(c1, t, "direct", RequestFor("dblp", "rec/{paper_id}.bib", paper_id))
     ELSE task_dblp_search(c1, t, paper_id)

\* get_bibtex(paper_id, use_dblp) up to its first request
task_begin(c, t, paper_id, use_dblp) ==
  LET key == bibtex_key(format(paper_id))
      c1 == [c EXCEPT !.bc = APICache_get(@, key)]
  IN IF Has(c.bc, key) THEN Returned(c1, t, Value(c.bc, key))
     ELSE IF use_dblp THEN task_dblp(c1, t, paper_id)
     ELSE task_lookup(c1, t, paper_id)

\* get_bibtex from the answer to its outstanding request on
task_answered(c, t, paper_id, resp) ==
  CASE t.at = "direct" -> task_dblp_direct_answered(c, t, paper_id, resp)
    [] t.at = "search" -> task_dblp_search_answered(c, t, paper_id, resp)
    [] t.at = "fetch" -> task_dblp_fetch_answered(c, t, paper_id, resp)
    [] t.at = "lookup" -> task_lookup_answered(c, t, paper_id, resp)

\* A slip: the results are collected as the tasks finish.
gather_as_completed(tasks, finished) == [i \in 1..Len(finished) |-> tasks[finished[i]]]

\* asyncio.gather(*tasks, return_exceptions=True): the outcomes in the order
\* of the tasks, whatever the order in which they finished
gather(tasks, finished) == tasks

\* results[paper_id] = value
dict_set(results, paper_id, value) ==
  IF \E i \in 1..Len(results) : results[i][1] = paper_id
  THEN [i \in 1..Len(results) |->
          IF results[i][1] = paper_id THEN <<paper_id, value>> ELSE results[i]]
  ELSE Append(results, <<paper_id, value>>)

RECURSIVE zip_results(_, _, _)
\* the loop over zip(paper_ids, bibtex_results): its first half, then its
\* second half from the dict the first half left
zip_results(results, paper_ids, bibtex_results) ==
  IF paper_ids = <<>> THEN results
  ELSE IF Len(paper_ids) = 1
  THEN dict_set(results, paper_ids[1],
                IF bibtex_results[1].raised THEN None ELSE bibtex_results[1].result)
  ELSE LET half == Len(paper_ids) \div 2
       IN the({ zip_results(first, SubSeq(paper_ids, half + 1, Len(paper_ids)),
                            SubSeq(bibtex_results, half + 1, Len(paper_ids))) :
                first \in {zip_results(results, SubSeq(paper_ids, 1, half),
                                       SubSeq(bibtex_results, 1, half))} })

\* -------------------------------------------------------- the batch machine
MaxBatch == 2

BatchIds == {Id_dblp, Id_openalex, None}

\* lists of distinct ids
BatchLists ==
  UNION { {l \in [1..n -> BatchIds] : \A i, j \in 1..n : i # j => l[i] # l[j]} : n \in 1..MaxBatch }

\* The answers a backend can give to the request a task waits for.
TaskAnswers(t, paper_id) ==
  CASE t.at = "direct" -> {NotFound, Text(Bib_entry)}
    [] t.at = "search" -> BibSearchAnswers(paper_id)
    [] t.at = "fetch" -> {NotFound, Text(Bib_entry)}
    [] t.at = "lookup" -> PaperAnswers(clients_to_try(_detect_source(paper_id))[t.k], paper_id)

\* get_bibtex_batch(paper_ids, use_dblp) is called: the tasks are created.
BatchStart ==
  /\ batch.phase = "idle"
  /\ \E paper_ids \in BatchLists, use_dblp \in BOOLEAN :
       batch' = [phase |-> "gathering", paper_ids |-> paper_ids, use_dblp |-> use_dblp,
                 tasks |-> [i \in 1..Len(paper_ids) |-> NewTask], finished |-> <<>>]
  /\ UNCHANGED <<search_cache, paper_cache, bibtex_cache, last, nops, cache, cache_ops, _aggregator, clients>>

\* the caches and the task after a step of task i
Stepped(i, r) ==
  /\ search_cache' = r.sc
  /\ paper_cache' = r.pc
  /\ bibtex_cache' = r.bc
  /\ batch' = [batch EXCEPT !.tasks[i] = r.task,
                            !.finished = IF r.task.at = "done" THEN Append(@, i) ELSE @]
  /\ UNCHANGED <<last, nops, cache, cache_ops, _aggregator, clients>>

\* The event loop runs the first step of a task; the tasks start in the
\* order in which gather created them.
TaskStart ==
  /\ batch.phase = "gathering"
  /\ \E i \in 1..Len(batch.tasks) :
       /\ batch.tasks[i].at = "created"
       /\ \A j \in 1..(i - 1) : batch.tasks[j].at # "created"
       /\ \E r \in {task_begin([sc |-> search_cache, pc |-> paper_cache, bc |-> bibtex_cache],
                               batch.tasks[i], batch.paper_ids[i], batch.use_dblp)} :
            Stepped(i, r)

\* The answer to the request of a suspended task arrives and the task runs
\* to its next request or to its end.
TaskResume ==
  /\ batch.phase = "gathering"
  /\ \A j \in 1..Len(batch.tasks) : batch.tasks[j].at # "created"
  /\ \E i \in 1..Len(batch.tasks) :
       /\ batch.tasks[i].at \in {"direct", "search", "fetch", "lookup"}
       /\ \E resp \in TaskAnswers(batch.tasks[i], batch.paper_ids[i]) :
            \E r \in {task_answered([sc |-> search_cache, pc |-> paper_cache, bc |-> bibtex_cache],
                                    batch.tasks[i], batch.paper_ids[i], resp)} :
               Stepped(i, r)

\* Every task is done: gather hands the outcomes to get_bibtex_batch, which
\* builds the map and returns it.
BatchReturn ==
  /\ batch.phase = "gathering"
  /\ \A i \in 1..Len(batch.tasks) : batch.tasks[i].at = "done"
  /\ batch' = [batch EXCEPT !.phase = "returned"]
  /\ last' = Done("get_bibtex_batch", "none",
                  [paper_ids |-> batch.paper_ids, use_dblp |-> batch.use_dblp],
                  Out(Ret(search_cache, paper_cache, bibtex_cache,
                          zip_results(<<>>, batch.paper_ids, gather(batch.tasks, batch.finished)),
                          <<>>), <<>>, <<>>))
  /\ nops' = nops + 1
  /\ UNCHANGED <<search_cache, paper_cache, bibtex_cache, cache, cache_ops, _aggregator, clients>>

NextBatch == BatchStart \/ TaskStart \/ TaskResume \/ BatchReturn

SpecBatch == Init /\ [][NextBatch]_vars

\* ------------------------------------------------ claims on get_bibtex_batch
\* C5: for a list of distinct ids the calls of get_bibtex run concurrently,
\* and whatever the order in which they finish, get_bibtex_batch does not
\* raise and returns a map with one key per id, in the order of the list,
\* whose value for an id is what the call for that id returned, and null for
\* a call that raised.
C5_BatchResultsFollowInputOrder ==
  batch.phase = "returned" =>
    /\ last.op = "get_bibtex_batch" /\ ~last.raised
    /\ Len(last.result) = Len(batch.paper_ids)
    /\ \A i \in 1..Len(batch.paper_ids) :
         /\ last.result[i][1] = batch.paper_ids[i]
         /\ last.result[i][2] = IF batch.tasks[i].raised THEN None ELSE batch.tasks[i].result

\* the second call raised and finished while the first waited for DBLP, and
\* the map holds the entry of the first and null for the second
C5_Witness ==
  /\ batch.phase = "returned"
  /\ batch.finished = <<2, 1>>
  /\ batch.tasks[2].raised
  /\ batch.tasks[1].http # <<>> /\ batch.tasks[1].result # None
  /\ last.result = << <<batch.paper_ids[1], batch.tasks[1].result>>, <<None, None>> >>

\* ------------------------------------------------------ the cache machine
\* One APICache of maxsize CacheMaxsize and the calls of its public methods,
\* with the clock advancing between them.  Keys are what bibtex_key gives.
CacheKeys == {bibtex_key(Id_dblp), bibtex_key(Id_openalex), bibtex_key(Id_doi)}
CacheValues == {None, <<"v">>}

CacheCall(op, key, result) == [op |-> op, key |-> key, result |-> result, n |-> nops + 1]

CacheGet ==
  /\ nops < MaxCacheOps
  /\ \E key \in CacheKeys :
       /\ cache' = APICache_get(cache, key)
       /\ last' = CacheCall("get", key, IF Has(cache, key) THEN Value(cache, key) ELSE None)
  /\ cache_ops' = [cache_ops EXCEPT !.gets = @ + 1]
  /\ nops' = nops + 1
  /\ UNCHANGED <<search_cache, paper_cache, bibtex_cache, batch, _aggregator, clients>>

CacheSet ==
  /\ nops < MaxCacheOps
  /\ \E key \in CacheKeys, value \in CacheValues :
       /\ cache' = APICache_set(cache, key, value)
       /\ last' = CacheCall("set", key, value)
  /\ cache_ops' = [cache_ops EXCEPT !.sets = @ + 1]
  /\ nops' = nops + 1
  /\ UNCHANGED <<search_cache, paper_cache, bibtex_cache, batch, _aggregator, clients>>

CacheGetOrSet ==
  /\ nops < MaxCacheOps
  /\ \E key \in CacheKeys, value \in CacheValues :
       \E r \in {APICache_get_or_set(cache, key, value)} :
         /\ cache' = r.cache
         /\ last' = CacheCall("get_or_set", key, r.result)
         /\ cache_ops' = [gets |-> cache_ops.gets + 1,
                          sets |-> cache_ops.sets + (IF Has(cache, key) /\ Value(cache, key) # None THEN 0 ELSE 1)]
  /\ nops' = nops + 1
  /\ UNCHANGED <<search_cache, paper_cache, bibtex_cache, batch, _aggregator, clients>>

CacheInvalidate ==
  /\ nops < MaxCacheOps
  /\ \E key \in CacheKeys :
       \E r \in {APICache_invalidate(cache, key)} :
         /\ cache' = r.cache
         /\ last' = CacheCall("invalidate", key, r.result)
  /\ nops' = nops + 1
  /\ UNCHANGED <<search_cache, paper_cache, bibtex_cache, batch, cache_ops, _aggregator, clients>>

CacheClear ==
  /\ nops < MaxCacheOps
  /\ cache' = APICache_clear(cache)
  /\ last' = CacheCall("clear", None, None)
  /\ cache_ops' = NoCacheOps
  /\ nops' = nops + 1
  /\ UNCHANGED <<search_cache, paper_cache, bibtex_cache, batch, _aggregator, clients>>

\* The TTL of the n oldest entries of cache runs out.
CacheExpire ==
  /\ nops < MaxCacheOps
  /\ \E n \in 1..Len(cache.data) : cache' = APICache_expire(cache, n)
  /\ nops' = nops + 1
  /\ UNCHANGED <<search_cache, paper_cache, bibtex_cache, batch, last, cache_ops, _aggregator, clients>>

NextCache ==
  CacheGet \/ CacheSet \/ CacheGetOrSet \/ CacheInvalidate \/ CacheClear \/ CacheExpire

SpecCache == Init /\ [][NextCache]_vars

\* A step in which get was called once: by itself or by get_or_set.
C11_Get == nops' = nops + 1 /\ last'.n = nops' /\ last'.op \in {"get", "get_or_set"}

C11_Counted ==
  /\ cache.hits + cache.misses = cache_ops.gets
  /\ APICache_stats(cache).size <= cache.maxsize
  /\ APICache_stats(cache).size <= cache_ops.sets
  /\ APICache_stats(cache).hits = cache.hits /\ APICache_stats(cache).misses = cache.misses
  /\ cache_ops.gets = 0 => APICache_stats(cache).hit_rate = <<"0", ".", "0", "%">>

\* C11: every get adds one to hits when an unexpired entry for the key is
\* held and one to misses otherwise, and nothing to the other counter, so
\* that hits + misses is the number of gets since creation or the last
\* clear; stats.size exceeds neither maxsize nor the number of sets; and
\* hit_rate reads 0.0% while there was no get.
C11_EveryGetIsCountedOnce ==
  /\ []C11_Counted
  /\ [][C11_Get =>
          IF Has(cache, last'.key)
          THEN cache'.hits = cache.hits + 1 /\ cache'.misses = cache.misses
          ELSE cache'.hits = cache.hits /\ cache'.misses = cache.misses + 1]_vars

\* Hits and misses were both counted, on a cache that is full after more
\* sets than it has room for.
C11_Witness ==
  /\ cache.hits >= 1 /\ cache.misses >= 1
  /\ Len(cache.data) = cache.maxsize /\ cache_ops.sets > cache.maxsize

C13_Invalidate == nops' = nops + 1 /\ last'.n = nops' /\ last'.op = "invalidate"

\* C13: invalidate(k) returns True exactly when an unexpired entry for k is
\* held; after it a get(k) is a miss; it changes neither hits nor misses nor
\* the entry of any other key.
C13_InvalidateRemovesOnlyItsKey ==
  [][C13_Invalidate =>
       /\ last'.result = Has(cache, last'.key)
       /\ APICache_get(cache', last'.key).misses = cache'.misses + 1
       /\ APICache_get(cache', last'.key).hits = cache'.hits
       /\ cache'.hits = cache.hits /\ cache'.misses = cache.misses
       /\ \A k \in CacheKeys \ {last'.key} :
            /\ Has(cache', k) = Has(cache, k)
            /\ Has(cache, k) => Value(cache', k) = Value(cache, k)]_vars

\* An entry was invalidated after gets were counted, and the entry of
\* another key is still held.
C13_Witness ==
  /\ last.op = "invalidate" /\ last.n = nops /\ last.result = TRUE
  /\ cache.data # <<>> /\ cache.hits + cache.misses >= 1

\* ------------------------------------------------------- key derivations
\* A call of one of the key functions, with its arguments as Python values:
\* a str is its characters, None is None and the int n is int(n).
int(n) == <<"int">> \o str_int(n)
optint(v) == IF v = NoInt THEN None ELSE int(v[1])

\* str(v) as _make_key applies it to every argument.
str(v) == IF v = None THEN S_None ELSE IF v[1] = "int" THEN Tail(v) ELSE v

\* The prefix, positional arguments and name-sorted named arguments that a
\* call hands to _make_key (cache.py:140-146, 158, 170).
make_key_arguments(c) ==
  CASE c.fn = "search_key" ->
         [prefix |-> S_search \o c.source, args |-> <<strip(lower(c.query))>>,
          kwargs |-> << <<S_limit, int(c.limit)>>, <<S_offset, int(c.offset)>>,
                        <<S_sort, c.sort>>, <<S_venue, c.venue>>,
                        <<S_year_from, optint(c.year_from)>>,
                        <<S_year_to, optint(c.year_to)>> >>]
    [] c.fn = "paper_key" -> [prefix |-> S_paper \o c.source, args |-> <<c.paper_id>>, kwargs |-> <<>>]
    [] c.fn = "bibtex_key" -> [prefix |-> S_bibtex, args |-> <<c.paper_id>>, kwargs |-> <<>>]
    [] c.fn = "_make_key" -> [prefix |-> c.prefix, args |-> c.args, kwargs |-> c.kwargs]

\* The key the call returns.
key_of(c) ==
  CASE c.fn = "search_key" -> search_key(c.source, c.query, c.limit, c.offset, filters4(c))
    [] c.fn = "paper_key" -> paper_key(c.source, c.paper_id)
    [] c.fn = "bibtex_key" -> bibtex_key(c.paper_id)
    [] c.fn = "_make_key" ->
         _make_key(c.prefix, [i \in 1..Len(c.args) |-> str(c.args[i])],
                   [i \in 1..Len(c.kwargs) |-> <<c.kwargs[i][1], str(c.kwargs[i][2])>>])

KeyCalls ==
  [fn : {"search_key"}, source : {S_openalex}, query : {<<"q">>, <<" ", "Q">>},
   limit : {1}, offset : {0}, sort : {None}, venue : {None, S_None, <<"v">>},
   year_from : {NoInt, <<1>>}, year_to : {NoInt}]
  \cup [fn : {"paper_key"}, source : {S_dblp, S_arxiv}, paper_id : {Id_dblp, Id_arxiv}]
  \cup [fn : {"bibtex_key"}, paper_id : {Id_dblp, Id_arxiv}]
  \cup [fn : {"_make_key"}, prefix : {<<"p">>},
        args : {<< <<"a", "|", "b">> >>, << <<"a">>, <<"b">> >>, << <<"a">> >>, << int(1) >>, << <<"1">> >>},
        kwargs : {<<>>, << <<S_venue, <<"v">>>> >>}]

\* Two keys are derived.
DeriveKeys ==
  /\ \E a \in KeyCalls, b \in KeyCalls :
       last' = [op |-> "keys", a |-> a, b |-> b, key_a |-> key_of(a), key_b |-> key_of(b)]
  /\ UNCHANGED <<search_cache, paper_cache, bibtex_cache, nops, batch, cache, cache_ops, _aggregator, clients>>

NextKey == DeriveKeys

SpecKey == Init /\ [][NextKey]_vars

\* C12: two key derivations return the same key exactly when their prefix,
\* positional arguments and named arguments are equal, the query lowercased
\* and trimmed and the named arguments sorted: None and the text "None", or
\* one argument a|b and two arguments a, b, never share a key.
C12_KeysAreInjective ==
  last.op = "keys" =>
    ((last.key_a = last.key_b) <=> (make_key_arguments(last.a) = make_key_arguments(last.b)))

\* ------------------------------------------------------------ Paper.doi
\* Papers are constructed from doi texts: a DOI behind up to two of the
\* prefixes that normalize_doi knows, in either letter case, with or without
\* white space around the text.
BareDois == {Id_doi, <<"1", "0", ".", "2", "/", "B">>, <<"x">>}
DoiPrefixes == {<<>>, S_https_doi, S_http_doi, S_doi_colon, <<"D", "O", "I", ":">>,
                <<"H", "T", "T", "P", "S", ":", "/", "/", "d", "o", "i", ".", "o", "r", "g", "/">>}
DoiTexts ==
  {None} \cup {pad \o p1 \o p2 \o D \o pad :
                 pad \in {<<>>, S_space}, p1 \in DoiPrefixes, p2 \in DoiPrefixes, D \in BareDois}

NewPaper ==
  /\ \E doi \in DoiTexts :
       last' = [op |-> "Paper", doi |-> doi,
                paper |-> Paper(<<"W", "1">>, <<"t">>, NoInt, None, doi, 0, "openalex", None)]
  /\ UNCHANGED <<search_cache, paper_cache, bibtex_cache, nops, batch, cache, cache_ops, _aggregator, clients>>

NextDoi == NewPaper

SpecDoi == Init /\ [][NextDoi]_vars

\* C14: a stored doi begins, in no letter case, with https://doi.org/,
\* http://doi.org/ or doi:; for a bare DOI D the texts https://doi.org/D,
\* http://doi.org/D, doi:D and D are all stored as D; and normalising a
\* stored doi again changes nothing.
C14_StoredDoiHasNoPrefix ==
  (last.op = "Paper" /\ last.paper.doi # None) =>
    /\ \A prefix \in {S_https_doi, S_http_doi, S_doi_colon} :
         ~startswith(lower(last.paper.doi), prefix)
    /\ \A D \in BareDois :
         last.doi \in {S_https_doi \o D, S_http_doi \o D, S_doi_colon \o D, D} => last.paper.doi = D
    /\ normalize_doi(last.paper.doi) = last.paper.doi

\* ------------------------------------------------------- source detection
\* _detect_source is applied to identifiers put together from the prefixes
\* and bodies that its tests look at.
DetectHeads ==
  {<<>>, S_10dot, S_arxiv_colon, <<"A", "R", "X", "I", "V", ":">>, S_http, S_https_doi,
   <<"H", "T", "T", "P", "S", ":", "/", "/", "D", "O", "I", ".", "O", "R", "G", "/">>,
   <<"h", "e", "p", "-", "t", "h">>, <<"H", "e", "p">>}
DetectTails ==
  {<<>>, <<"1">>, <<"a">>, <<"9", "9", "0", "1", "0", "0", "1">>, <<"1", "\n">>,
   <<"2", "4", "0", "1", ".", "1", "2", "3", "4", "5">>}
DetectIds ==
  {head \o mid \o tail : head \in DetectHeads, mid \in {<<>>, S_slash}, tail \in DetectTails}
  \cup {Id_s2, [i \in 1..40 |-> IF i = 7 THEN "/" ELSE "a"], [i \in 1..40 |-> IF i = 7 THEN "_" ELSE "a"],
        [i \in 1..41 |-> "a"], [i \in 1..40 |-> IF i < 5 THEN "1" ELSE "B"],
        <<"2", "4", "0", "1", ".", "1", "2", "3">>, <<"2", "4", "0", "1", ".", "1", "2", "3", "4", "5", "6">>}

DetectSource ==
  /\ \E paper_id \in DetectIds :
       last' = [op |-> "_detect_source", paper_id |-> paper_id, result |-> _detect_source(paper_id)]
  /\ UNCHANGED <<search_cache, paper_cache, bibtex_cache, nops, batch, cache, cache_ops, _aggregator, clients>>

NextDetect == DetectSource

SpecDetect == Init /\ [][NextDetect]_vars

\* The tests of rules (2), (3) and (4).
C15_Arxiv(id) == startswith(lower(id), S_arxiv_colon) \/ old_pattern(id) \/ new_pattern(id)
C15_Dblp(id) == contains(id, S_slash) /\ ~startswith(id, S_http)
C15_Semantic(id) == Len(id) = 40 /\ \A i \in 1..Len(id) : isalnum(id[i])

\* The source that the rules give, in their order, when doi is the outcome
\* of the test of rule (1).
C15_Ruled(id, doi) ==
  IF doi THEN "openalex"
  ELSE IF C15_Arxiv(id) THEN "arxiv"
  ELSE IF C15_Dblp(id) THEN "dblp"
  ELSE IF C15_Semantic(id) THEN "semantic_scholar"
  ELSE "openalex"

S_Error == <<"*", "*", "E", "r", "r", "o", "r", "*", "*", ":", " ">>
S_unexpected == <<"A", "n", " ", "u", "n", "e", "x", "p", "e", "c", "t", "e", "d", " ", "e", "r", "r", "o", "r", " ", "o", "c", "c", "u", "r", "r", "e", "d", ".", " ", "P", "l", "e", "a", "s", "e", " ", "t", "r", "y", " ", "a", "g", "a", "i", "n", ".">>
S_e404 == <<"R", "e", "s", "o", "u", "r", "c", "e", " ", "n", "o", "t", " ", "f", "o", "u", "n", "d", ".", " ", "P", "l", "e", "a", "s", "e", " ", "c", "h", "e", "c", "k", " ", "t", "h", "e", " ", "I", "D", " ", "i", "s", " ", "c", "o", "r", "r", "e", "c", "t", ".">>
S_e403 == <<"A", "c", "c", "e", "s", "s", " ", "d", "e", "n", "i", "e", "d", ".", " ", "T", "h", "i", "s", " ", "r", "e", "s", "o", "u", "r", "c", "e", " ", "m", "a", "y", " ", "r", "e", "q", "u", "i", "r", "e", " ", "a", "u", "t", "h", "e", "n", "t", "i", "c", "a", "t", "i", "o", "n", ".">>
S_e429 == <<"R", "a", "t", "e", " ", "l", "i", "m", "i", "t", " ", "e", "x", "c", "e", "e", "d", "e", "d", ".", " ", "P", "l", "e", "a", "s", "e", " ", "w", "a", "i", "t", " ", "b", "e", "f", "o", "r", "e", " ", "m", "a", "k", "i", "n", "g", " ", "m", "o", "r", "e", " ", "r", "e", "q", "u", "e", "s", "t", "s", ".">>
S_e5xx == <<"S", "e", "r", "v", "e", "r", " ", "e", "r", "r", "o", "r", " ", "(">>
S_e5xx_end == <<")", ".", " ", "T", "h", "e", " ", "A", "P", "I", " ", "m", "a", "y", " ", "b", "e", " ", "t", "e", "m", "p", "o", "r", "a", "r", "i", "l", "y", " ", "u", "n", "a", "v", "a", "i", "l", "a", "b", "l", "e", ".">>
S_eHTTP == <<"H", "T", "T", "P", " ", "e", "r", "r", "o", "r", " ">>
S_colon_space == <<":", " ">>
S_eTimeout == <<"R", "e", "q", "u", "e", "s", "t", " ", "t", "i", "m", "e", "d", " ", "o", "u", "t", ".", " ", "P", "l", "e", "a", "s", "e", " ", "t", "r", "y", " ", "a", "g", "a", "i", "n", ".">>
S_eConnect == <<"C", "o", "n", "n", "e", "c", "t", "i", "o", "n", " ", "f", "a", "i", "l", "e", "d", ".", " ", "P", "l", "e", "a", "s", "e", " ", "c", "h", "e", "c", "k", " ", "y", "o", "u", "r", " ", "n", "e", "t", "w", "o", "r", "k", ".">>
S_eOther == <<"U", "n", "e", "x", "p", "e", "c", "t", "e", "d", " ", "e", "r", "r", "o", "r", ":", " ">>
S_no_ids == <<"E", "r", "r", "o", "r", ":", " ", "N", "o", " ", "p", "a", "p", "e", "r", " ", "I", "D", "s", " ", "p", "r", "o", "v", "i", "d", "e", "d">>
S_no_doi == <<"N", "o", " ", "p", "a", "p", "e", "r", " ", "f", "o", "u", "n", "d", " ", "f", "o", "r", " ", "D", "O", "I", ":", " ">>
S_not_found == <<"P", "a", "p", "e", "r", " ", "n", "o", "t", " ", "f", "o", "u", "n", "d", ":", " ">>
S_no_bibtex == <<"C", "o", "u", "l", "d", " ", "n", "o", "t", " ", "g", "e", "n", "e", "r", "a", "t", "e", " ", "B", "i", "b", "T", "e", "X", " ", "f", "o", "r", ":", " ">>
\* "```bibtex": the element "backquote" stands for the character U+0060.
S_fence == <<"backquote", "backquote", "backquote", "b", "i", "b", "t", "e", "x">>
S_failed == <<"\n", "*", "F", "a", "i", "l", "e", "d", " ", "t", "o", " ", "g", "e", "n", "e", "r", "a", "t", "e", " ", "B", "i", "b", "T", "e", "X", " ", "f", "o", "r", ":", " ">>
S_results_for == <<"#", " ", "S", "e", "a", "r", "c", "h", " ", "R", "e", "s", "u", "l", "t", "s", " ", "f", "o", "r", ":", " ">>
S_citations_for == <<"#", " ", "C", "i", "t", "a", "t", "i", "o", "n", "s", " ", "f", "o", "r", ":", " ">>
S_papers_by == <<"#", " ", "P", "a", "p", "e", "r", "s", " ", "b", "y", ":", " ">>
S_related_for == <<"#", " ", "R", "e", "l", "a", "t", "e", "d", " ", "P", "a", "p", "e", "r", "s", " ", "f", "o", "r", ":", " ">>
S_title_colon == <<"t", "i", "t", "l", "e", ":">>
S_author_colon == <<"a", "u", "t", "h", "o", "r", ":">>
S_relevance == <<"r", "e", "l", "e", "v", "a", "n", "c", "e">>
S_stars == <<"*", "*">>
S_hash == <<"#", " ">>
S_brace == <<"{">>
S_comma == <<",">>
S_comma_space == <<",", " ">>

\* An exception a tool body meets: its class, and for an HTTPStatusError the
\* status code and the text of the response.
NoException == [kind |-> "none", status |-> 0, body |-> <<>>]
Exception(kind, status) == [kind |-> kind, status |-> status, body |-> <<"x">>]

\* The classes that derive from Exception; CancelledError does not.
Exceptions ==
  {"HTTPStatusError", "TimeoutException", "ConnectError", "RuntimeError", "ValueError"}

\* _format_api_error; type(e).__name__ is one element of the text.
_format_api_error(e) ==
  IF e.kind = "HTTPStatusError"
  THEN IF e.status = 404 THEN S_e404
       ELSE IF e.status = 403 THEN S_e403
       ELSE IF e.status = 429 THEN S_e429
       ELSE IF e.status >= 500 THEN S_e5xx \o str_int(e.status) \o S_e5xx_end
       ELSE S_eHTTP \o str_int(e.status) \o S_colon_space \o e.body
  ELSE IF e.kind = "TimeoutException" THEN S_eTimeout
  ELSE IF e.kind = "ConnectError" THEN S_eConnect
  ELSE S_eOther \o <<e.kind>> \o S_colon_space \o e.body

\* What a tool function does with its text or with the exception it met.
Returns(text) == [returned |-> TRUE, text |-> text]
Propagates == [returned |-> FALSE, text |-> None]

\* The except clauses of a tool with the clause for Exception left out.
except_clauses_httpx_only(e) ==
  IF e.kind \in {"HTTPStatusError", "TimeoutException", "ConnectError"}
  THEN Returns(S_Error \o _format_api_error(e))
  ELSE Propagates

\* The two except clauses that every tool ends with.
except_clauses(e) ==
  IF e.kind \in {"HTTPStatusError", "TimeoutException", "ConnectError"}
  THEN Returns(S_Error \o _format_api_error(e))
  ELSE IF e.kind \in Exceptions THEN Returns(S_Error \o S_unexpected)
  ELSE Propagates

\* The outcome of a tool: that of the aggregator call r it made, the
\* exception met and what the tool did.
Tool(r, e, out) ==
  [sc |-> r.sc, pc |-> r.pc, bc |-> r.bc, calls |-> r.calls, http |-> r.http,
   raised |-> r.raised, error |-> r.error, result |-> r.result,
   rejected |-> FALSE, exception |-> e, returned |-> out.returned, text |-> out.text]

\* No call of the aggregator was made.
NoOut(sc, pc, bc) == Out(Ret(sc, pc, bc, NoResult, <<>>), <<>>, <<>>)

\* get_aggregator() raises while _aggregator is None.
Uninitialized(sc, pc, bc) ==
  Tool(NoOut(sc, pc, bc), Exception("RuntimeError", 0), except_clauses(Exception("RuntimeError", 0)))

\* The exception of an aggregator call that raised; the status of the
\* response is status.
Met(r, status) ==
  Exception(r.error.kind, IF r.error.kind = "HTTPStatusError" THEN status ELSE 0)

\* The tool ends with the aggregator outcome r: text when it returned.
Ends(r, status, text) ==
  IF r.raised THEN Tool(r, Met(r, status), except_clauses(Met(r, status)))
  ELSE Tool(r, NoException, Returns(text))

\* The framework refused the arguments: the tool function did not run.
Rejected(sc, pc, bc) ==
  [Tool(NoOut(sc, pc, bc), NoException, Propagates) EXCEPT !.rejected = TRUE]

\* format_paper_markdown(paper) without an index: its first line.
format_paper_markdown(paper) == S_stars \o paper.title \o S_stars

\* The query academic_search_papers hands to the aggregator.
effective_query(t) ==
  LET q1 == IF truthy(t.title) THEN strip(S_title_colon \o t.title \o S_space \o t.query)
            ELSE t.query
  IN IF truthy(t.author) THEN strip(S_author_colon \o t.author \o S_space \o q1) ELSE q1

\* The Field constraints of academic_search_papers: limit in 1..100 and
\* offset at least 0.  There is none on year_from and year_to.
search_papers_fields(t) == t.limit >= 1 /\ t.limit <= 100 /\ t.offset >= 0

\* academic_search_papers; looked answers the requests of the DOI lookup,
\* resps those of the search.
academic_search_papers(agg, sc, pc, bc, t, looked, resps, status) ==
  IF ~search_papers_fields(t) THEN Rejected(sc, pc, bc)
  ELSE IF agg = None THEN Uninitialized(sc, pc, bc)
  ELSE IF truthy(t.doi)
  THEN the({ Ends(p, status,
                  IF p.result = NoPaper THEN S_no_doi \o t.doi
                  ELSE IF t.response_format = "json" THEN S_brace
                  ELSE format_paper_markdown(p.result)) :
             p \in {Aggregator_get_paper(sc, pc, bc, t.doi, "none", looked)} })
  ELSE the({ Ends(r, status,
                  IF t.response_format = "json" THEN S_brace ELSE S_results_for \o t.query) :
             r \in {Aggregator_search(sc, pc, bc, "none",
                                      [query |-> effective_query(t), limit |-> t.limit,
                                       offset |-> t.offset, sort |-> t.sort,
                                       year_from |-> t.year_from, year_to |-> t.year_to,
                                       venue |-> t.venue], resps)} })

\* academic_get_paper_details
academic_get_paper_details(agg, sc, pc, bc, paper_id, response_format, looked, status) ==
  IF agg = None THEN Uninitialized(sc, pc, bc)
  ELSE the({ Ends(p, status,
                  IF p.result = NoPaper THEN S_not_found \o paper_id
                  ELSE IF response_format = "json" THEN S_brace
                  ELSE S_hash \o p.result.title) :
             p \in {Aggregator_get_paper(sc, pc, bc, paper_id, "none", looked)} })

RECURSIVE split(_, _)
\* s.split(c)
split(s, c) ==
  IF \E i \in 1..Len(s) : s[i] = c
  THEN LET i == CHOOSE i \in 1..Len(s) : s[i] = c /\ \A j \in 1..(i - 1) : s[j] # c
       IN <<SubSeq(s, 1, i - 1)>> \o split(SubSeq(s, i + 1, Len(s)), c)
  ELSE <<s>>

\* [pid.strip() for pid in paper_ids.split(",") if pid.strip()]
parse_ids(paper_ids) ==
  LET parts == split(paper_ids, ",")
  IN SelectSeq([i \in 1..Len(parts) |-> strip(parts[i])], LAMBDA pid : pid # <<>>)

RECURSIVE get_bibtex_each(_, _, _)
\* The calls of get_bibtex that get_bibtex_batch gathers, run one after the
\* other in the order of the ids (the first half of the ids, then the second
\* from the caches the first half left), while no backend answers a request.
get_bibtex_each(c, paper_ids, use_dblp) ==
  IF paper_ids = <<>> THEN <<>>
  ELSE IF Len(paper_ids) = 1
  THEN <<Aggregator_get_bibtex(c.sc, c.pc, c.bc, paper_ids[1], use_dblp, NotFound,
                               NotFound, NotFound, <<NotFound, NotFound, NotFound>>)>>
  ELSE the({ first \o get_bibtex_each(first[Len(first)],
                                      SubSeq(paper_ids, Len(first) + 1, Len(paper_ids)), use_dblp) :
             first \in {get_bibtex_each(c, SubSeq(paper_ids, 1, Len(paper_ids) \div 2), use_dblp)} })

RECURSIVE all_http(_)
all_http(rs) == IF rs = <<>> THEN <<>> ELSE rs[1].http \o all_http(Tail(rs))

\* AcademicAggregator.get_bibtex_batch with its calls of get_bibtex.
Aggregator_get_bibtex_batch(sc, pc, bc, paper_ids, use_dblp) ==
  the({ Out(Ret(rs[Len(rs)].sc, rs[Len(rs)].pc, rs[Len(rs)].bc,
                zip_results(<<>>, paper_ids, gather(rs, <<>>)), <<>>),
            [i \in 1..Len(rs) |-> Call("aggregator.get_bibtex", rs[i])], all_http(rs)) :
        rs \in {get_bibtex_each([sc |-> sc, pc |-> pc, bc |-> bc], paper_ids, use_dblp)} })

\* The first line of the text academic_get_bibtex makes of a batch.
batch_text(results) ==
  LET failed == SelectSeq(results, LAMBDA item : ~truthy(item[2]))
  IN IF Len(failed) < Len(results) THEN S_fence
     ELSE S_failed \o join(S_comma_space, [i \in 1..Len(failed) |-> failed[i][1]]) \o <<"*">>

\* academic_get_bibtex; direct, search, fetch and resps answer the requests
\* of a single get_bibtex.
academic_get_bibtex(agg, sc, pc, bc, paper_ids, use_dblp, direct, search, fetch, resps, status) ==
  IF agg = None THEN Uninitialized(sc, pc, bc)
  ELSE the({ IF ids = <<>> THEN Tool(NoOut(sc, pc, bc), NoException, Returns(S_no_ids))
             ELSE IF Len(ids) = 1
             THEN the({ Ends(Out(r, <<Call("aggregator.get_bibtex", r)>>, r.http), status,
                             IF truthy(r.result) THEN S_fence ELSE S_no_bibtex \o ids[1]) :
                        r \in {Aggregator_get_bibtex(sc, pc, bc, ids[1], use_dblp, direct, search,
                                                     fetch, resps)} })
             ELSE the({ Ends(r, status, batch_text(r.result)) :
                        r \in {Aggregator_get_bibtex_batch(sc, pc, bc, ids, use_dblp)} }) :
             ids \in {parse_ids(paper_ids)} })

\* The Field constraints of academic_get_citations, which those of
\* academic_search_author repeat.
limit_offset_fields(limit, offset) == limit >= 1 /\ limit <= 100 /\ offset >= 0

\* academic_get_citations
academic_get_citations(agg, sc, pc, bc, paper_id, limit, offset, lookup, citing, resps, status) ==
  IF ~limit_offset_fields(limit, offset) THEN Rejected(sc, pc, bc)
  ELSE IF agg = None THEN Uninitialized(sc, pc, bc)
  ELSE the({ Ends(r, status, S_citations_for \o paper_id) :
             r \in {Aggregator_get_citations(sc, pc, bc, paper_id, limit, offset, lookup, citing,
                                             resps)} })

\* What a call of the aggregator that the model does not follow into the
\* adapters hands back: result, or the exception of class kind.
Handed(sc, pc, bc, adapter, kind, result) ==
  IF kind = "none" THEN Out(Ret(sc, pc, bc, result, <<>>), <<>>, <<>>)
  ELSE Out(Raise(sc, pc, bc, [adapter |-> adapter, kind |-> kind], <<>>), <<>>, <<>>)

\* The year filter of academic_search_author.
in_years(paper, year_from, year_to) ==
  /\ ~(year_from # NoInt /\ year_from[1] # 0 /\ paper.year # NoInt /\ paper.year[1] # 0
       /\ paper.year[1] < year_from[1])
  /\ ~(year_to # NoInt /\ year_to[1] # 0 /\ paper.year # NoInt /\ paper.year[1] # 0
       /\ paper.year[1] > year_to[1])

\* academic_search_author; r is what aggregator.search_by_author hands back.
academic_search_author(agg, sc, pc, bc, author_name, year_from, year_to, r, status) ==
  IF agg = None THEN Uninitialized(sc, pc, bc)
  ELSE IF r.raised THEN Ends(r, status, <<>>)
  ELSE Ends([r EXCEPT !.result =
               IF (year_from # NoInt /\ year_from[1] # 0) \/ (year_to # NoInt /\ year_to[1] # 0)
               THEN the({ SearchResult(@.total_results, kept, @.offset, @.has_more, @.query, @.source) :
                          kept \in {SelectSeq(@.papers, LAMBDA paper : in_years(paper, year_from, year_to))} })
               ELSE @],
            status, S_papers_by \o author_name)

\* academic_get_related_papers; r is what aggregator.get_related_papers
\* hands back.
academic_get_related_papers(agg, sc, pc, bc, paper_id, r, status) ==
  IF agg = None THEN Uninitialized(sc, pc, bc)
  ELSE Ends(r, status, S_related_for \o paper_id)

\* The Field constraints of academic_get_citation_network.
network_fields(depth, max_nodes) ==
  depth >= 1 /\ depth <= 2 /\ max_nodes >= 10 /\ max_nodes <= 200

\* academic_get_citation_network, which renders JSON.
academic_get_citation_network(agg, sc, pc, bc, paper_id, depth, max_nodes, direction, lookup, citing, work, held, status) ==
  IF ~network_fields(depth, max_nodes) THEN Rejected(sc, pc, bc)
  ELSE IF agg = None THEN Uninitialized(sc, pc, bc)
  ELSE the({ Ends(r, status, S_brace) :
             r \in {Aggregator_get_citation_network(sc, pc, bc, paper_id, depth, max_nodes,
                                                    direction, lookup, citing, work, held)} })

\* ------------------------------------------------------ the server machine
\* Tool calls in one behaviour.
MaxToolCalls == 1

\* The record of a tool call, with whether the aggregator was initialized,
\* and the clients of the adapters that were sent a request.
ToolCall(op, args, r) ==
  [op |-> op, args |-> args, calls |-> r.calls, http |-> r.http, raised |-> r.raised,
   error |-> r.error, result |-> r.result, rejected |-> r.rejected,
   exception |-> r.exception, returned |-> r.returned, text |-> r.text,
   initialized |-> _aggregator # None, n |-> nops + 1]

asked(http) == {http[i].adapter : i \in 1..Len(http)} \cap (PaperSource \ {"arxiv"})

opened(c, http) ==
  [adapter \in PaperSource |->
     IF adapter \in asked(http) THEN BaseClient_get_client(c[adapter]) ELSE c[adapter]]

\* lifespan, up to its yield: the server starts.
LifespanEnter ==
  /\ _aggregator = None
  /\ _aggregator' = <<"AcademicAggregator">>
  /\ clients' = [adapter \in PaperSource |-> NoClient]
  /\ UNCHANGED <<search_cache, paper_cache, bibtex_cache, last, nops, batch, cache, cache_ops>>

\* lifespan, after its yield: aggregator.close() closes every adapter.
LifespanExit ==
  /\ _aggregator # None
  /\ _aggregator' = None
  /\ clients' = [adapter \in PaperSource |-> BaseClient_close(clients[adapter])]
  /\ UNCHANGED <<search_cache, paper_cache, bibtex_cache, last, nops, batch, cache, cache_ops>>

Statuses == {404, 400, 500}

ToolSearchArgs ==
  { t \in [query : {<<"q">>}, title : {None, <<"t">>}, author : {None, <<"h">>}, doi : {None, Id_doi},
           year_from : {NoInt, <<2001>>}, year_to : {NoInt, <<2000>>}, venue : {None},
           sort : {S_relevance}, limit : {0, 1}, offset : {0},
           response_format : {"markdown", "json"}] :
      /\ (t.doi # None \/ t.limit = 0) =>
           (t.title = None /\ t.author = None /\ t.year_from = NoInt /\ t.year_to = NoInt)
      /\ (t.author = None) = (t.title = None)
      /\ (t.title = None) = (t.year_from = NoInt)
      /\ t.response_format = "json" => (t.title = None /\ t.year_from = NoInt /\ t.limit = 1)
      /\ (t.year_from = NoInt) = (t.year_to = NoInt) }

\* The answers to the requests of one tool call that searches: the first
\* adapter that answers ends the chain.
ToolSearchAnswers ==
  { v \in SearchAnswers("none") :
      /\ \A i \in 1..3 : v[i].ok => v[i].items # <<>>
      /\ \A i \in 1..2 : ~v[i].ok => v[i] = Failed("HTTPStatusError") }

\* The status of a failed response matters when the tool meets the error.
StatusMatters(r, status) == (r.exception.kind # "HTTPStatusError") => status = 404

AcademicSearchPapers ==
  /\ nops < MaxToolCalls
  /\ \E t \in ToolSearchArgs, status \in {404, 400} :
     \E looked \in ChainAnswers(clients_to_try(_detect_source(Id_doi)), Id_doi),
        resps \in ToolSearchAnswers :
       /\ (truthy(t.doi) /\ search_papers_fields(t) /\ _aggregator # None)
            \/ looked = <<NotFound, NotFound, NotFound>>
       /\ (~truthy(t.doi) /\ search_papers_fields(t) /\ _aggregator # None)
            \/ resps = [i \in 1..3 |-> Failed("HTTPStatusError")]
       /\ (t.title = None /\ t.response_format = "markdown") \/ resps[1].ok
       /\ \E r \in {academic_search_papers(_aggregator, search_cache, paper_cache, bibtex_cache,
                                           t, looked, resps, status)} :
            /\ StatusMatters(r, status)
            /\ truthy(t.doi) => OnlyAsked(looked, r.calls)
            /\ search_cache' = r.sc
            /\ paper_cache' = r.pc
            /\ clients' = opened(clients, r.http)
            /\ last' = ToolCall("academic_search_papers", t, r)
  /\ nops' = nops + 1
  /\ UNCHANGED <<bibtex_cache, batch, cache, cache_ops, _aggregator>>

AcademicGetPaperDetails ==
  /\ nops < MaxToolCalls
  /\ \E paper_id \in {Id_doi}, status \in {404, 400} :
     \E looked \in ChainAnswers(clients_to_try(_detect_source(paper_id)), paper_id) :
       /\ _aggregator # None \/ looked = <<NotFound, NotFound, NotFound>>
       /\ \E r \in {academic_get_paper_details(_aggregator, search_cache, paper_cache, bibtex_cache,
                                               paper_id, "markdown", looked, status)} :
            /\ StatusMatters(r, status)
            /\ OnlyAsked(looked, r.calls)
            /\ search_cache' = r.sc
            /\ paper_cache' = r.pc
            /\ clients' = opened(clients, r.http)
            /\ last' = ToolCall("academic_get_paper_details", [paper_id |-> paper_id], r)
  /\ nops' = nops + 1
  /\ UNCHANGED <<bibtex_cache, batch, cache, cache_ops, _aggregator>>

\* Texts of paper ids: none, one, and two of which one is blank.
IdTexts == {<<>>, <<" ", ",">>, Id_dblp, Id_openalex \o S_comma \o S_space \o Id_dblp,
            Id_dblp \o S_comma \o S_space}

GetBibtexTool(texts, direct, search, fetch, resps, bound) ==
  /\ nops < bound
  /\ \E paper_ids \in texts, use_dblp \in BOOLEAN, status \in {404, 400} :
       /\ _aggregator # None \/ use_dblp
       /\ \E r \in {academic_get_bibtex(_aggregator, search_cache, paper_cache, bibtex_cache,
                                        paper_ids, use_dblp, direct, search, fetch, resps, status)} :
            /\ StatusMatters(r, status)
            /\ search_cache' = r.sc
            /\ paper_cache' = r.pc
            /\ bibtex_cache' = r.bc
            /\ clients' = opened(clients, r.http)
            /\ last' = ToolCall("academic_get_bibtex",
                                [paper_ids |-> paper_ids, use_dblp |-> use_dblp,
                                 ids |-> parse_ids(paper_ids)], r)
  /\ nops' = nops + 1
  /\ UNCHANGED <<batch, cache, cache_ops, _aggregator>>

\* academic_get_bibtex while dblp.org serves no entry and the other backends
\* hold the paper or fail.
AcademicGetBibtex ==
  \E held \in {NotFound, Json(<<Holds("openalex", Id_dblp)>>, 1, FALSE)} :
    GetBibtexTool(IF held = NotFound THEN IdTexts \ {Id_dblp} ELSE {Id_dblp},
                  NotFound, NotFound, NotFound, <<NotFound, held, NotFound>>, MaxToolCalls)

AcademicGetCitations ==
  /\ nops < MaxToolCalls
  /\ \E limit \in {0, 1}, status \in {404, 400},
        lookup \in PaperAnswers("openalex", Id_openalex), citing \in CitingResponses :
       /\ (limit = 1 /\ _aggregator # None) \/ (lookup = NotFound /\ citing = NotFound)
       /\ lookup = NotFound => citing = NotFound
       /\ \E r \in {academic_get_citations(_aggregator, search_cache, paper_cache, bibtex_cache,
                                           Id_openalex, limit, 0, lookup, citing,
                                           <<NotFound, NotFound, NotFound>>, status)} :
            /\ StatusMatters(r, status)
            /\ search_cache' = r.sc
            /\ paper_cache' = r.pc
            /\ clients' = opened(clients, r.http)
            /\ last' = ToolCall("academic_get_citations", [paper_id |-> Id_openalex, limit |-> limit], r)
  /\ nops' = nops + 1
  /\ UNCHANGED <<bibtex_cache, batch, cache, cache_ops, _aggregator>>

\* The classes of the exceptions an aggregator call can hand to a tool.
Raisable == {"none"} \cup Exceptions

AuthorResult ==
  SearchResult(2, <<Paper(<<"W", "1">>, <<"t">>, <<2000>>, None, None, 0, "openalex", None),
                    Paper(<<"W", "2">>, <<"u">>, NoInt, None, None, 0, "openalex", None)>>,
               0, FALSE, <<"h">>, "openalex")

AcademicSearchAuthor ==
  /\ nops < MaxToolCalls
  /\ \E kind \in Raisable, year_from \in {NoInt, <<2001>>}, status \in {404, 400} :
       /\ (kind = "none" /\ _aggregator # None) \/ year_from = NoInt
       /\ \E r \in {academic_search_author(_aggregator, search_cache, paper_cache, bibtex_cache,
                                           <<"h">>, year_from, NoInt,
                                           Handed(search_cache, paper_cache, bibtex_cache,
                                                  "semantic_scholar", kind, AuthorResult),
                                           status)} :
            /\ StatusMatters(r, status)
            /\ _aggregator = None => kind = "none"
            /\ last' = ToolCall("academic_search_author",
                                [author_name |-> <<"h">>, year_from |-> year_from], r)
  /\ nops' = nops + 1
  /\ UNCHANGED <<search_cache, paper_cache, bibtex_cache, batch, cache, cache_ops, _aggregator, clients>>

AcademicGetRelatedPapers ==
  /\ nops < MaxToolCalls
  /\ \E kind \in Raisable, status \in Statuses :
       \E r \in {academic_get_related_papers(_aggregator, search_cache, paper_cache, bibtex_cache,
                                             Id_s2,
                                             Handed(search_cache, paper_cache, bibtex_cache,
                                                    "semantic_scholar", kind,
                                                    [paper_id |-> Id_s2, related_papers |-> <<>>,
                                                     recommendation_source |-> S_semantic]),
                                             status)} :
         /\ StatusMatters(r, status)
         /\ _aggregator = None => kind = "none"
         /\ last' = ToolCall("academic_get_related_papers", [paper_id |-> Id_s2], r)
  /\ nops' = nops + 1
  /\ UNCHANGED <<search_cache, paper_cache, bibtex_cache, batch, cache, cache_ops, _aggregator, clients>>

AcademicGetCitationNetwork ==
  /\ nops < MaxToolCalls
  /\ \E max_nodes \in {9, 10}, status \in {404, 400},
        lookup \in PaperAnswers("openalex", Id_openalex),
        citing \in {NotFound} \cup {Json(l, Len(l), FALSE) : l \in CitingLists} :
       /\ (max_nodes = 10 /\ _aggregator # None) \/ (lookup = NotFound /\ citing = NotFound)
       /\ (lookup = NotFound /\ ~Has(paper_cache, paper_key(S_openalex, Id_openalex)))
            => citing = NotFound
       /\ \E r \in {academic_get_citation_network(
                      _aggregator, search_cache, paper_cache, bibtex_cache, Id_openalex, 1,
                      max_nodes, "citing", lookup, citing, NotFound,
                      [id \in {Id_openalex, Id_W2, Id_W3} |-> NotFound], status)} :
            /\ StatusMatters(r, status)
            /\ search_cache' = r.sc
            /\ paper_cache' = r.pc
            /\ clients' = opened(clients, r.http)
            /\ last' = ToolCall("academic_get_citation_network",
                                [paper_id |-> Id_openalex, max_nodes |-> max_nodes], r)
  /\ nops' = nops + 1
  /\ UNCHANGED <<bibtex_cache, batch, cache, cache_ops, _aggregator>>

NextTools ==
  \/ LifespanEnter \/ LifespanExit
  \/ AcademicSearchPapers \/ AcademicGetPaperDetails \/ AcademicGetBibtex
  \/ AcademicGetCitations \/ AcademicSearchAuthor \/ AcademicGetRelatedPapers
  \/ AcademicGetCitationNetwork

SpecTools == Init /\ [][NextTools]_vars

\* C16: a call of the search-papers tool with year_from > year_to, made
\* while the server runs, is rejected with a validation error, and no
\* adapter is called and no request is sent for it.
C16_ReversedYearRangeIsRejected ==
  (/\ last.op = "academic_search_papers" /\ last.initialized
   /\ last.args.year_from # NoInt /\ last.args.year_to # NoInt
   /\ last.args.year_from[1] > last.args.year_to[1]) =>
     (last.rejected /\ last.calls = <<>> /\ last.http = <<>>)

\* The tools of the server that call the aggregator.
AggregatorTools ==
  {"academic_search_papers", "academic_get_paper_details", "academic_get_bibtex",
   "academic_get_citations", "academic_search_author", "academic_get_related_papers",
   "academic_get_citation_network"}

\* C18: a tool that calls the aggregator and whose function ran returns a
\* text whatever happened, and when its body met an exception (of an adapter,
\* of the aggregator, or "Aggregator not initialized") the text it returns
\* begins with "**Error**: "; the exception does not leave the tool.
C18_ToolsReturnTextForEveryOutcome ==
  (last.op \in AggregatorTools /\ ~last.rejected) =>
    /\ last.returned
    /\ last.text # None
    /\ last.exception.kind # "none" => startswith(last.text, S_Error)
    /\ last.exception.kind = "none" => ~last.raised

\* A tool met an exception that is no httpx error while the server ran, and
\* returned the text of its last except clause.
C18_Witness ==
  /\ last.op \in AggregatorTools
  /\ last.initialized
  /\ last.exception.kind = "ValueError"
  /\ last.returned
  /\ last.text = S_Error \o S_unexpected

\* ------------------------------------------ academic_get_bibtex, long lists
\* GetBibTeXInput.paper_ids: Field(..., min_length=1, max_length=50)
MaxPaperIds == 50

\* "W1,W2,...,Wn"
ManyIds(n) == join(S_comma, [i \in 1..n |-> <<"W">> \o str_int(i)])

\* Texts of 49, 50 and 51 ids, and of ids between blanks.
LongIdTexts ==
  {ManyIds(n) : n \in (MaxPaperIds - 1)..(MaxPaperIds + 1)}
    \cup {ManyIds(n) \o S_comma \o S_space : n \in 1..3}
    \cup {S_comma \o ManyIds(n) : n \in 0..3}

\* academic_get_bibtex while no backend holds any of the papers.
AcademicGetBibtexMany ==
  GetBibtexTool(LongIdTexts, NotFound, NotFound, NotFound, <<NotFound, NotFound, NotFound>>, MaxToolCalls)

NextBibtexTool == LifespanEnter \/ LifespanExit \/ AcademicGetBibtex \/ AcademicGetBibtexMany

SpecBibtexTool == Init /\ [][NextBibtexTool]_vars

\* The calls of aggregator.get_bibtex the last tool call started.
started_get_bibtex == SelectSeq(last.calls, LAMBDA c : c.adapter = "aggregator.get_bibtex")

\* C17: a call of the get-bibtex tool whose list of paper ids has no id or
\* more than 50 ids is rejected (with a validation error or the text
\* "Error: No paper IDs provided"), and starts no call of get_bibtex.
C17_IdListLengthIsChecked ==
  (/\ last.op = "academic_get_bibtex" /\ last.initialized
   /\ (Len(last.args.ids) = 0 \/ Len(last.args.ids) > MaxPaperIds)) =>
     (/\ last.rejected \/ last.text = S_no_ids
      /\ started_get_bibtex = <<>>)

\* --------------------------------------------------- the connection machine
\* The adapters' requests and calls of close(), interleaved as the event
\* loop allows: close() gives way inside aclose(), after the client is
\* closed and before _client is set to None. objects are the AsyncClients
\* an adapter has created, _client the index of the one it holds (0: None),
\* requests the number of requests issued, closing the calls of close()
\* that wait inside aclose().
MaxClientOps == 4

\* The adapters that send their requests with BaseClient._request.
HttpAdapters == PaperSource \ {"arxiv"}

ClientStep(op, adapter, before, after, on) ==
  [op |-> op, adapter |-> adapter, before |-> before, after |-> after, on |-> on, n |-> nops + 1]

\* BaseClient._request up to client.request(...): _get_client, and the
\* request is issued on the client it returned.
ClientRequest ==
  /\ nops < MaxClientOps
  /\ \E adapter \in HttpAdapters :
       \E c \in {BaseClient_get_client(clients[adapter])} :
         /\ clients' = [clients EXCEPT ![adapter] = [c EXCEPT !.requests = @ + 1]]
         /\ last' = ClientStep("client.request", adapter, clients[adapter], clients'[adapter],
                               c._client)
  /\ nops' = nops + 1
  /\ UNCHANGED <<search_cache, paper_cache, bibtex_cache, batch, cache, cache_ops, _aggregator>>

\* BaseClient.close up to the await inside aclose(): nothing when no open
\* client is held.
ClientCloseBegin ==
  /\ nops < MaxClientOps
  /\ \E adapter \in PaperSource :
       \E c \in {clients[adapter]} :
         /\ clients' = [clients EXCEPT ![adapter] =
                          IF c._client # 0 /\ ~is_closed(c)
                          THEN [aclose(c) EXCEPT !.closing = @ + 1]
                          ELSE c]
         /\ last' = ClientStep("client.close", adapter, c, clients'[adapter], c._client)
  /\ nops' = nops + 1
  /\ UNCHANGED <<search_cache, paper_cache, bibtex_cache, batch, cache, cache_ops, _aggregator>>

\* BaseClient.close after aclose() returned: self._client = None.
ClientCloseEnd ==
  /\ \E adapter \in PaperSource :
       /\ clients[adapter].closing > 0
       /\ clients' = [clients EXCEPT ![adapter] = [@ EXCEPT !._client = 0, !.closing = @ - 1]]
       /\ last' = ClientStep("client.closed", adapter, clients[adapter], clients'[adapter],
                             clients[adapter]._client)
  /\ UNCHANGED <<search_cache, paper_cache, bibtex_cache, batch, cache, cache_ops, _aggregator, nops>>

NextClient == ClientRequest \/ ClientCloseBegin \/ ClientCloseEnd

SpecClient == Init /\ [][NextClient]_vars

\* No open client is held: none at all, or a closed one.
NoOpenClient(c) == c._client = 0 \/ is_closed(c)

C19_NoClientBeforeFirstRequest ==
  \A adapter \in PaperSource :
    clients[adapter].requests = 0 => (clients[adapter]._client = 0 /\ clients[adapter].objects = <<>>)

C19_FirstRequestOpens ==
  (last.op = "client.request" /\ last.before.objects = <<>>) =>
    (last.after.objects = <<"open">> /\ last.after._client = 1 /\ last.on = 1)

C19_CloseCloses ==
  (last.op = "client.close" /\ ~NoOpenClient(last.before)) =>
    /\ last.after.objects[last.before._client] = "closed"
    /\ Len(last.after.objects) = Len(last.before.objects)
    /\ \A i \in 1..Len(last.after.objects) : i # last.before._client =>
         last.after.objects[i] = last.before.objects[i]

C19_CloseWithoutOpenClientIsNoOp ==
  (last.op = "client.close" /\ NoOpenClient(last.before)) => last.after = last.before

C19_RequestAfterCloseCreatesFresh ==
  (last.op = "client.request" /\ NoOpenClient(last.before)) =>
    /\ last.after.objects = Append(last.before.objects, "open")
    /\ last.after._client = Len(last.after.objects)
    /\ last.on = last.after._client

C19_RequestOnOpenClient ==
  last.op = "client.request" =>
    /\ last.on \in 1..Len(last.after.objects)
    /\ last.after.objects[last.on] = "open"
    /\ ~NoOpenClient(last.before) =>
         (last.on = last.before._client /\ last.after.objects = last.before.objects)

\* C19: an adapter has no client before its first request, which opens one;
\* close() closes the open client it holds and does nothing when it holds
\* none; a request made when no open client is held (after close(), or with
\* a closed client held) creates a fresh client; and every request is
\* issued on a client that is open.
C19_ConnectionLifecycle ==
  /\ C19_NoClientBeforeFirstRequest
  /\ C19_FirstRequestOpens
  /\ C19_CloseCloses
  /\ C19_CloseWithoutOpenClientIsNoOp
  /\ C19_RequestAfterCloseCreatesFresh
  /\ C19_RequestOnOpenClient

\* A request was made while close() waited inside aclose() with the closed
\* client still held, and was issued on a fresh client.
C19_Witness ==
  /\ last.op = "client.request"
  /\ last.before._client # 0
  /\ is_closed(last.before)
  /\ last.before.closing > 0
  /\ last.on = Len(last.after.objects)
  /\ last.after.objects[last.on] = "open"

\* ------------------------------------------------- attempts of one request
\* arxiv.Client(page_size=100, delay_seconds=delay_seconds, num_retries=3)
ArxivNumRetries == 3

\* What a backend answers to one attempt of a request.
Attempts == {"200", "HTTPStatusError", "TimeoutException"}

\* The answers to the attempts of one request, in their order.
AttemptAnswers == [1..(ArxivNumRetries + 1) -> Attempts]

Attempted(answers, n, raised, result) ==
  [attempts |-> n, answered |-> SubSeq(answers, 1, n), raised |-> raised, result |-> result]

\* BaseClient._request: client.request once; a failure is raised again.
BaseClient_request(answers) ==
  Attempted(answers, 1, answers[1] # "200", IF answers[1] = "200" THEN <<"Response">> ELSE None)

\* arxiv.Client.results(search) for one page, as the adapter configures the
\* client: a failing request is tried again until num_retries retries are
\* used up, then its error is raised.
arxiv_Client_results(answers, num_retries) ==
  LET n == IF \E i \in 1..(num_retries + 1) : answers[i] = "200"
           THEN CHOOSE i \in 1..(num_retries + 1) :
                  answers[i] = "200" /\ \A j \in 1..(i - 1) : answers[j] # "200"
           ELSE num_retries + 1
  IN Attempted(answers, n, answers[n] # "200", IF answers[n] = "200" THEN <<"Result">> ELSE None)

\* ArxivClient.search: except Exception: raise
ArxivClient_search(answers) == arxiv_Client_results(answers, ArxivNumRetries)

\* ArxivClient.get_paper: except Exception: return None
ArxivClient_get_paper(answers) == [arxiv_Client_results(answers, ArxivNumRetries) EXCEPT !.raised = FALSE]

AdapterCall(op, adapter, r) ==
  [op |-> op, adapter |-> adapter, attempts |-> r.attempts, answered |-> r.answered,
   raised |-> r.raised, result |-> r.result, n |-> nops + 1]

\* One request of an adapter that uses BaseClient._request.
HttpRequest ==
  /\ nops < MaxOps
  /\ \E adapter \in HttpAdapters, answers \in AttemptAnswers :
       /\ \A i \in 2..(ArxivNumRetries + 1) : answers[i] = "200"
       /\ \E c \in {BaseClient_get_client(clients[adapter])} :
            clients' = [clients EXCEPT ![adapter] = [c EXCEPT !.requests = @ + 1]]
       /\ last' = AdapterCall("_request", adapter, BaseClient_request(answers))
  /\ nops' = nops + 1
  /\ UNCHANGED <<search_cache, paper_cache, bibtex_cache, batch, cache, cache_ops, _aggregator>>

\* One page of results fetched by the arXiv adapter; an answer that no
\* attempt asks for is left out (it is "200").
ArxivRequest ==
  /\ nops < MaxOps
  /\ \E op \in {"search", "get_paper"}, answers \in AttemptAnswers :
       \E r \in {IF op = "search" THEN ArxivClient_search(answers)
                 ELSE ArxivClient_get_paper(answers)} :
         /\ \A i \in (r.attempts + 1)..(ArxivNumRetries + 1) : answers[i] = "200"
         /\ last' = AdapterCall(op, "arxiv", r)
  /\ nops' = nops + 1
  /\ UNCHANGED <<search_cache, paper_cache, bibtex_cache, batch, cache, cache_ops, _aggregator, clients>>

NextAttempts == HttpRequest \/ ArxivRequest

SpecAttempts == Init /\ [][NextAttempts]_vars

\* C20: no adapter, arXiv included, issues a request again: each request
\* is attempted exactly once, and a failed attempt is raised or turned into
\* None.
C20_EachRequestIsAttemptedOnce ==
  last.op \in {"_request", "search", "get_paper"} =>
    /\ last.attempts = 1
    /\ last.answered[1] # "200" => (last.raised \/ last.result = None)

\* ------------------------------------------- the results of adapter searches
S_openalex_author == S_openalex \o <<"_", "a", "u", "t", "h", "o", "r">>
S_crossref_author == S_crossref \o <<"_", "a", "u", "t", "h", "o", "r">>

\* OpenAlexClient.search_by_author
OpenAlex_search_by_author(sc, pc, bc, author_name, limit, offset, resp) ==
  LET key == search_key(S_openalex_author, author_name, limit, offset, <<>>)
      c1 == APICache_get(sc, key)
      req == <<Request("openalex", "works")>>
      parsed == [i \in 1..Len(resp.items) |-> OpenAlex_parse_work(resp.items[i])]
      papers == slice(parsed, offset % OpenAlexPerPage, limit)
      result == SearchResult(resp.total, papers, offset, offset + Len(papers) < resp.total,
                             S_author_colon \o author_name, "openalex")
  IN IF Has(sc, key) THEN Ret(c1, pc, bc, Value(sc, key), <<>>)
     ELSE IF ~resp.ok THEN Raise(c1, pc, bc, HttpError("openalex", resp), req)
     ELSE Ret(APICache_set(c1, key, result), pc, bc, result, req)

\* DBLPClient.search_by_author
DBLP_search_by_author(sc, pc, bc, author_name, limit, offset, resp) ==
  DBLP_search(sc, pc, bc,
              [query |-> S_author_colon \o author_name, limit |-> limit, offset |-> offset,
               sort |-> None, year_from |-> NoInt, year_to |-> NoInt, venue |-> None], resp)

\* CrossRefClient.search_by_author
CrossRef_search_by_author(sc, pc, bc, author_name, limit, offset, resp) ==
  LET key == search_key(S_crossref_author, author_name, limit, offset, <<>>)
      c1 == APICache_get(sc, key)
      req == <<Request("crossref", "works")>>
      papers == [i \in 1..Len(resp.items) |-> CrossRef_parse_work(resp.items[i])]
      result == SearchResult(resp.total, papers, offset, offset + Len(papers) < resp.total,
                             S_author_colon \o author_name, "crossref")
  IN IF Has(sc, key) THEN Ret(c1, pc, bc, Value(sc, key), <<>>)
     ELSE IF ~resp.ok THEN Raise(c1, pc, bc, HttpError("crossref", resp), req)
     ELSE Ret(APICache_set(c1, key, result), pc, bc, result, req)

Client_search_by_author(adapter, sc, pc, bc, author_name, limit, offset, resp) ==
  CASE adapter = "openalex" -> OpenAlex_search_by_author(sc, pc, bc, author_name, limit, offset, resp)
    [] adapter = "dblp" -> DBLP_search_by_author(sc, pc, bc, author_name, limit, offset, resp)
    [] adapter = "crossref" -> CrossRef_search_by_author(sc, pc, bc, author_name, limit, offset, resp)

\* The adapters whose backend reports the number of matching papers.
TotalAdapters == {"openalex", "dblp", "crossref"}

MaxResultOps == 2

\* Pages of a search: limit and offset.
ResultPages == {<<1, 0>>, <<2, 1>>}

\* What a backend answers to a search: a failure, no hit, or one or two
\* records of the total it reports.
ResultResponses ==
  { Failed("HTTPStatusError"), Json(<<>>, 0, FALSE),
    Json(<<Record(<<"W","1">>, <<"v">>, 1)>>, 1, FALSE),
    Json(<<Record(<<"W","1">>, <<"v">>, 1), Record(<<"W","2">>, <<"w">>, 0)>>, 2, FALSE),
    Json(<<Record(<<"W","1">>, <<"v">>, 1), Record(<<"W","2">>, <<"w">>, 0)>>, 3, TRUE) }

ResultCall(op, adapter, limit, offset, resp, r) ==
  [op |-> op, adapter |-> adapter, limit |-> limit, offset |-> offset, response |-> resp,
   raised |-> r.raised, result |-> r.result, http |-> r.http, n |-> nops + 1]

\* search of an adapter that reports a total.
AdapterSearch ==
  /\ nops < MaxResultOps
  /\ \E adapter \in TotalAdapters, page \in ResultPages, venue \in Venues, resp \in ResultResponses :
       /\ venue = None \/ (adapter = "crossref" /\ page = <<1, 0>>)
       /\ \E r \in {Client_search(adapter, search_cache, paper_cache, bibtex_cache,
                                  [query |-> <<"q">>, limit |-> page[1], offset |-> page[2],
                                   sort |-> None, year_from |-> NoInt, year_to |-> NoInt,
                                   venue |-> venue], resp)} :
            /\ r.http = <<>> => resp = Failed("HTTPStatusError")
            /\ search_cache' = r.sc
            /\ last' = ResultCall("adapter.search", adapter, page[1], page[2], resp, r)
  /\ nops' = nops + 1
  /\ UNCHANGED <<paper_cache, bibtex_cache, batch, cache, cache_ops, _aggregator, clients>>

\* search_by_author of an adapter that reports a total.
AdapterSearchByAuthor ==
  /\ nops < MaxResultOps
  /\ \E adapter \in TotalAdapters, page \in {<<1, 0>>}, resp \in ResultResponses :
       \E r \in {Client_search_by_author(adapter, search_cache, paper_cache, bibtex_cache,
                                         <<"h">>, page[1], page[2], resp)} :
         /\ r.http = <<>> => resp = Failed("HTTPStatusError")
         /\ search_cache' = r.sc
         /\ last' = ResultCall("adapter.search_by_author", adapter, page[1], page[2], resp, r)
  /\ nops' = nops + 1
  /\ UNCHANGED <<paper_cache, bibtex_cache, batch, cache, cache_ops, _aggregator, clients>>

NextResult == AdapterSearch \/ AdapterSearchByAuthor

SpecResult == Init /\ [][NextResult]_vars

\* C21: a SearchResult that search or search_by_author of OpenAlex, DBLP or
\* CrossRef returns has returned_count = len(papers), and has_more only when
\* total_results > offset + returned_count; from a response with no hit it
\* has returned_count = 0 and has_more = false.
C21_SearchResultCounts ==
  (last.op \in {"adapter.search", "adapter.search_by_author"} /\ ~last.raised) =>
    /\ last.result.returned_count = Len(last.result.papers)
    /\ last.result.has_more =>
         last.result.total_results > last.result.offset + last.result.returned_count
    /\ (last.http # <<>> /\ last.response.items = <<>> /\ last.response.total = 0) =>
         (last.result.returned_count = 0 /\ ~last.result.has_more)

\* A search at an offset returned fewer papers than the backend counts and
\* says that there are more.
C21_Witness ==
  /\ last.op = "adapter.search"
  /\ ~last.raised
  /\ last.http # <<>>
  /\ last.result.has_more
  /\ last.result.offset > 0
  /\ last.result.returned_count = 1
  /\ last.result.total_results = 3

\* ------------------------------------------------- the pages of OpenAlex
\* The number of works that match the query on the backend.
ListLen == 260

MaxPageOps == 1

\* The works that match, in the order in which the backend lists them.
StableList == [i \in 1..ListLen |-> Record(<<"W">> \o str_int(i), None, 0)]

\* page=1 + (offset // per_page) if per_page > 0 else 1
OpenAlex_page(offset, per_page) == IF per_page > 0 THEN 1 + (offset \div per_page) ELSE 1

\* The answer of the backend to a request for a page of per_page works.
OpenAlex_serves(L, page, per_page) ==
  Json(SubSeq(L, (page - 1) * per_page + 1, Min(Len(L), page * per_page)), Len(L), FALSE)

PageLimits == {1, 50, 60, 100}
PageOffsets == {10 * k : k \in 0..(ListLen \div 10)}

\* OpenAlexClient.search while the backend serves the pages of StableList.
OpenAlexPage ==
  /\ nops < MaxPageOps
  /\ \E limit \in PageLimits, offset \in PageOffsets :
       \E r \in {OpenAlex_search(search_cache, paper_cache, bibtex_cache,
                                 [query |-> <<"q">>, limit |-> limit, offset |-> offset,
                                  sort |-> None, year_from |-> NoInt, year_to |-> NoInt,
                                  venue |-> None],
                                 OpenAlex_serves(StableList,
                                                 OpenAlex_page(offset, OpenAlexPerPage),
                                                 OpenAlexPerPage))} :
         /\ search_cache' = r.sc
         /\ last' = [op |-> "openalex.page", limit |-> limit, offset |-> offset,
                     raised |-> r.raised,
                     ids |-> [i \in 1..Len(r.result.papers) |-> r.result.papers[i].id],
                     has_more |-> r.result.has_more, http |-> r.http, n |-> nops + 1]
  /\ nops' = nops + 1
  /\ UNCHANGED <<paper_cache, bibtex_cache, batch, cache, cache_ops, _aggregator, clients>>

NextPage == OpenAlexPage

SpecPage == Init /\ [][NextPage]_vars

\* C22: OpenAlex search(query, limit, offset) returns the papers
\* L[offset .. offset+limit-1] of the stable list L of the backend, fewer
\* only where L ends, also when offset mod 200 + limit is more than 200.
C22_PageIsTheSliceOfTheList ==
  last.op = "openalex.page" =>
    last.ids = [i \in 1..(Min(ListLen, last.offset + last.limit) - Min(ListLen, last.offset)) |->
                  StableList[last.offset + i].id]

\* ------------------------------------------- entries of papers with authors
S_author == <<"a","u","t","h","o","r">>
S_and == <<" ","a","n","d"," ">>

RECURSIVE split_ws(_)
\* s.split(): the runs of characters between white space
split_ws(s) ==
  IF s = <<>> THEN <<>>
  ELSE IF isspace(s[1]) THEN split_ws(Tail(s))
  ELSE LET j == CHOOSE j \in 1..Len(s) :
                  /\ \A k \in 1..j : ~isspace(s[k])
                  /\ j = Len(s) \/ isspace(s[j + 1])
       IN <<SubSeq(s, 1, j)>> \o split_ws(SubSeq(s, j + 1, Len(s)))

\* "".join(c for c in s if c.isalnum())
only_alnum(s) == SelectSeq(s, LAMBDA c : isalnum(c))

\* The last name generate_bibtex_key takes from the name of the first author.
last_name_of(first_author) ==
  IF contains(first_author, <<",">>) THEN strip(split(first_author, ",")[1])
  ELSE LET name_parts == split_ws(first_author)
       IN IF name_parts # <<>> THEN name_parts[Len(name_parts)] ELSE S_Unknown

\* generate_bibtex_key(paper) for a paper whose authors have the names authors
generate_bibtex_key_authors(paper, authors) ==
  (IF authors # <<>> THEN capitalize(only_alnum(last_name_of(authors[1]))) ELSE S_Unknown)
    \o (IF paper.year # NoInt /\ paper.year # <<0>> THEN str_int(paper.year[1]) ELSE <<>>)
    \o (IF truthy(paper.title) THEN first_significant(words(paper.title, 1)) ELSE <<>>)

\* format_authors_bibtex
format_authors_bibtex(authors) ==
  join(S_and,
       [i \in 1..Len(authors) |->
          LET name == strip(authors[i])
              parts == split_ws(name)
          IN IF contains(name, <<",">>) THEN escape_latex(name)
             ELSE IF Len(parts) >= 2
             THEN escape_latex(parts[Len(parts)]) \o <<",", " ">>
                    \o escape_latex(join(<<" ">>, SubSeq(parts, 1, Len(parts) - 1)))
             ELSE escape_latex(name)])

\* key = custom_key or paper.bibtex_key or generate_bibtex_key(paper)
entry_key(paper, authors, custom_key) ==
  IF truthy(custom_key) THEN custom_key
  ELSE IF truthy(paper.bibtex_key) THEN paper.bibtex_key
  ELSE generate_bibtex_key_authors(paper, authors)

\* The lines of generate_bibtex(paper, custom_key) before the comma of the
\* last one is removed.
entry_lines(paper, authors, custom_key) ==
  LET entry_type == determine_entry_type(paper)
  IN << S_at \o entry_type \o <<"{">> \o entry_key(paper, authors, custom_key) \o <<",">> >>
     \o (IF authors # <<>> THEN <<field(S_author, format_authors_bibtex(authors))>> ELSE <<>>)
     \o (IF truthy(paper.title) THEN <<field(S_title, escape_latex(paper.title))>> ELSE <<>>)
     \o (IF entry_type = S_article /\ truthy(paper.venue)
         THEN <<field(S_journal, escape_latex(paper.venue))>>
         ELSE IF entry_type = S_inproceedings /\ truthy(paper.venue)
         THEN <<field(S_booktitle, escape_latex(paper.venue))>> ELSE <<>>)
     \o (IF paper.year # NoInt /\ paper.year # <<0>>
         THEN <<field(S_year, str_int(paper.year[1]))>> ELSE <<>>)
     \o (IF truthy(paper.doi) THEN <<field(S_doi, paper.doi)>> ELSE <<>>)
     \o (IF truthy(paper.arxiv_id)
         THEN <<field(S_eprint, paper.arxiv_id), S_archiveprefix>> ELSE <<>>)
     \o (IF truthy(paper.url) THEN <<field(S_url, paper.url)>> ELSE <<>>)

\* generate_bibtex(paper, custom_key) of a paper with authors
generate_bibtex_custom(paper, authors, custom_key) ==
  LET lines == entry_lines(paper, authors, custom_key)
      n == Len(lines)
      chopped == IF lines[n][Len(lines[n])] = ","
                 THEN [lines EXCEPT ![n] = SubSeq(lines[n], 1, Len(lines[n]) - 1)]
                 ELSE lines
  IN join(S_nl, chopped \o << <<"}">> >>)

\* chr(ord('a') + counter - 1), for the counters that lists of fewer than 27
\* papers reach
chr_from_a(counter) == <<LowerCase[counter]>>

\* generate_bibtex_batch with the loop replaced by one suffix for a key in use.
unique_key_once(original_key, key, counter, used_keys) ==
  IF key \in used_keys THEN original_key \o chr_from_a(counter) ELSE key

RECURSIVE unique_key(_, _, _, _)
\* while key in used_keys: key = f"{original_key}{chr(...)}"; counter += 1
unique_key(original_key, key, counter, used_keys) ==
  IF key \in used_keys
  THEN unique_key(original_key, original_key \o chr_from_a(counter), counter + 1, used_keys)
  ELSE key

RECURSIVE batch_entries(_, _, _)
\* The loop of generate_bibtex_batch over papers from position i: the
\* entries and the keys they were generated with.
batch_entries(papers, i, used_keys) ==
  IF i > Len(papers) THEN <<>>
  ELSE LET p == papers[i]
           original_key == entry_key(p.paper, p.authors, None)
           key == unique_key(original_key, original_key, 1, used_keys)
       IN <<[key |-> key, entry |-> generate_bibtex_custom(p.paper, p.authors, key)]>>
            \o batch_entries(papers, i + 1, used_keys \cup {key})

\* generate_bibtex_batch(papers)
generate_bibtex_batch(papers) ==
  LET entries == batch_entries(papers, 1, {})
  IN [entries |-> entries,
      text |-> join(<<"\n", "\n">>, [i \in 1..Len(entries) |-> entries[i].entry])]

\* The citation key written in an entry: what stands between the first
\* brace and the end of the first line, less the comma that ends the line.
written_key(entry) ==
  LET line == split(entry, "\n")[1]
      open == CHOOSE i \in 1..Len(line) : line[i] = "{" /\ \A j \in 1..(i - 1) : line[j] # "{"
      rest == SubSeq(line, open + 1, Len(line))
  IN IF rest # <<>> /\ rest[Len(rest)] = "," THEN SubSeq(rest, 1, Len(rest) - 1) ELSE rest

MaxPapers == 3

WithAuthors(paper, authors) == [paper |-> paper, authors |-> authors]

\* Papers to export: two with the same generated key, one whose key is the
\* suffixed key of those, two whose generated key is empty, one whose key is
\* the first suffix alone.
BatchPapers ==
  { WithAuthors(Paper(<<"1">>, <<"t">>, NoInt, None, None, 0, "openalex", None), <<>>),
    WithAuthors(Paper(<<"2">>, <<"T">>, NoInt, None, None, 0, "dblp", None), <<>>),
    WithAuthors(Paper(<<"3">>, <<"x">>, NoInt, None, None, 0, "dblp", S_Unknown \o <<"T", "a">>), <<>>),
    WithAuthors(Paper(<<"4">>, <<>>, NoInt, None, None, 0, "crossref", None), << <<"?">> >>),
    WithAuthors(Paper(<<"5">>, <<"1">>, NoInt, None, None, 0, "crossref", None), << <<" ", "!", ",", "b">> >>),
    WithAuthors(Paper(<<"6">>, <<"y">>, NoInt, None, None, 0, "dblp", <<"a">>), <<>>) }

\* The list of the last export, to which the next one adds a paper.
exported == IF last.op = "generate_bibtex_batch" THEN last.papers ELSE <<>>

GenerateBibtexBatch ==
  /\ Len(exported) < MaxPapers
  /\ \E papers \in {Append(exported, p) : p \in BatchPapers} :
       \E r \in {generate_bibtex_batch(papers)} :
         last' = [op |-> "generate_bibtex_batch", papers |-> papers, entries |-> r.entries,
                  text |-> r.text]
  /\ UNCHANGED <<search_cache, paper_cache, bibtex_cache, nops, batch, cache, cache_ops, _aggregator, clients>>

NextBibBatch == GenerateBibtexBatch

SpecBibBatch == Init /\ [][NextBibBatch]_vars

\* C23: the citation keys of the entries that generate_bibtex_batch emits
\* for a list of papers are pairwise distinct (the loop that suffixes a key
\* in use ends), whether keys are equal, pre-computed, or empty.
C23_BatchKeysAreDistinct ==
  last.op = "generate_bibtex_batch" =>
    /\ Len(last.entries) = Len(last.papers)
    /\ \A i, j \in 1..Len(last.entries) :
         i # j => written_key(last.entries[i].entry) # written_key(last.entries[j].entry)
    /\ \A i \in 1..Len(last.entries) : written_key(last.entries[i].entry) = last.entries[i].key

\* Three papers with one generated key: the third meets both the key and
\* its first suffix in use.
C23_Witness ==
  /\ last.op = "generate_bibtex_batch"
  /\ Len(last.entries) = 3
  /\ \A i \in 1..3 : entry_key(last.papers[i].paper, last.papers[i].authors, None)
                       = S_Unknown \o <<"T">>
  /\ written_key(last.entries[3].entry) = S_Unknown \o <<"T", "b">>

\* ------------------------------------------------ reading a key back
\* \w of the regular expression, for the characters of the model
isword(c) == isalnum(c) \/ c = "_"

\* Where re.search(r"@\w+\{([^,]+),", bibtex) matches at position i: the
\* positions of the brace and of the comma, or <<>>.
match_at(bibtex, i) ==
  IF bibtex[i] # "@" THEN <<>>
  ELSE LET n == Len(bibtex)
           stops == {j \in (i + 1)..n : ~isword(bibtex[j])}
           brace == IF stops = {} THEN 0 ELSE CHOOSE j \in stops : \A k \in stops : j <= k
           commas == {j \in (brace + 1)..n : bibtex[j] = ","}
           comma == IF commas = {} THEN 0 ELSE CHOOSE j \in commas : \A k \in commas : j <= k
       IN IF brace > i + 1 /\ bibtex[brace] = "{" /\ comma > brace + 1
          THEN <<brace, comma>> ELSE <<>>

\* parse_bibtex_key_from_entry
parse_bibtex_key_from_entry(bibtex) ==
  LET starts == {i \in 1..Len(bibtex) : match_at(bibtex, i) # <<>>}
  IN IF starts = {} THEN None
     ELSE LET m == match_at(bibtex, CHOOSE i \in starts : \A k \in starts : i <= k)
          IN strip(SubSeq(bibtex, m[1] + 1, m[2] - 1))

MaxEntryOps == 1

\* Papers to write an entry for: with and without a title, a year, a doi, a
\* key of their own and an author.
EntryPapers ==
  { WithAuthors(Paper(<<"1">>, title, year, None, doi, 0, "dblp", key), authors) :
      title \in {<<>>, <<"t">>, <<"1", " ", "t">>, <<"t", ",", "u">>},
      year \in {NoInt, <<2001>>},
      doi \in {None, <<"1", "0", ".", "1", "/", "x">>},
      key \in {None, <<"K", "1">>},
      authors \in {<<>>, << <<"A", " ", "B">> >>} }

EntryKeys == {None, <<"c">>}

GenerateBibtex ==
  /\ nops < MaxEntryOps
  /\ \E p \in EntryPapers, custom_key \in EntryKeys :
       \E entry \in {generate_bibtex_custom(p.paper, p.authors, custom_key)} :
         last' = [op |-> "generate_bibtex", paper |-> p.paper, authors |-> p.authors,
                  custom_key |-> custom_key,
                  key |-> entry_key(p.paper, p.authors, custom_key),
                  entry |-> entry,
                  again |-> generate_bibtex_custom(p.paper, p.authors, custom_key),
                  parsed |-> parse_bibtex_key_from_entry(entry)]
  /\ nops' = nops + 1
  /\ UNCHANGED <<search_cache, paper_cache, bibtex_cache, batch, cache, cache_ops, _aggregator, clients>>

NextEntry == GenerateBibtex

SpecEntry == Init /\ [][NextEntry]_vars

\* C24: generate_bibtex(p) gives the same text on every call, and
\* parse_bibtex_key_from_entry of that text is the key the entry was
\* generated with, also for an entry without field lines.
C24_KeyIsReadBack ==
  last.op = "generate_bibtex" =>
    /\ last.again = last.entry
    /\ last.parsed = last.key

\* ------------------------------------------- arguments and cache entries
\* C25: two searches on one adapter that differ in an argument (query,
\* limit, offset, sort, year_from, year_to, venue) never share a cache
\* entry: when the first call made on an adapter succeeded and the next call
\* on the same adapter has other arguments, the backend is asked again.
C25_OtherArgumentsOtherEntry ==
  [][ ( /\ last.op = "client_search" /\ last.n = 1 /\ ~last.raised
        /\ last'.op = "client_search" /\ last'.n = 2
        /\ last'.source = last.source
        /\ last'.args # last.args )
      => last'.http # <<>> ]_vars

\* ------------------------------------------------- the query sent to DBLP
S_year_colon == <<"y","e","a","r",":">>
S_venue_colon == <<"v","e","n","u","e",":">>

\* f"year:{year_from or '*'}:{year_to or '*'}"
DBLP_year_filter(year_from, year_to) ==
  S_year_colon
    \o (IF year_from # NoInt /\ year_from # <<0>> THEN str_int(year_from[1]) ELSE <<"*">>)
    \o <<":">>
    \o (IF year_to # NoInt /\ year_to # <<0>> THEN str_int(year_to[1]) ELSE <<"*">>)

\* The q parameter DBLPClient.search builds from query and filters.
DBLP_search_query(a) ==
  LET with_year == IF (a.year_from # NoInt /\ a.year_from # <<0>>)
                        \/ (a.year_to # NoInt /\ a.year_to # <<0>>)
                   THEN a.query \o <<" ">> \o DBLP_year_filter(a.year_from, a.year_to)
                   ELSE a.query
  IN IF truthy(a.venue) THEN a.query \o <<" ">> \o S_venue_colon \o a.venue
     ELSE with_year

\* The parameters of the request of DBLPClient.search.
DBLP_search_params(a) ==
  [q |-> DBLP_search_query(a), format |-> "json", h |-> Min(a.limit, 1000), f |-> a.offset]

MaxQueryOps == 1

DblpArgs == [query : Queries, limit : {1, 2}, offset : {0, 1}, sort : {None},
             year_from : {NoInt, <<2001>>}, year_to : {NoInt, <<2005>>},
             venue : {None, <<>>, <<"v">>}]

\* DBLPClient.search(query, limit, offset, year_from, year_to, venue)
DblpSearch ==
  /\ nops < MaxQueryOps
  /\ \E a \in DblpArgs, resp \in SearchResponses :
       \E r \in {DBLP_search(search_cache, paper_cache, bibtex_cache, a, resp)} :
          /\ search_cache' = r.sc
          /\ last' = [op |-> "dblp.search", args |-> a, http |-> r.http,
                      params |-> DBLP_search_params(a), raised |-> r.raised,
                      result |-> r.result]
  /\ nops' = nops + 1
  /\ UNCHANGED <<paper_cache, bibtex_cache, batch, cache, cache_ops, _aggregator, clients>>

NextQuery == DblpSearch

SpecQuery == Init /\ [][NextQuery]_vars

\* C26: the q parameter of a DBLP search holds the filter of every bound
\* given: year:FROM:TO when year_from or year_to is given, venue:... when a
\* venue is given, and both when both are.
C26_QueryHoldsEveryFilter ==
  (last.op = "dblp.search" /\ last.http # <<>>) =>
    /\ (last.args.year_from # NoInt \/ last.args.year_to # NoInt) =>
         contains(last.params.q, DBLP_year_filter(last.args.year_from, last.args.year_to))
    /\ truthy(last.args.venue) =>
         contains(last.params.q, S_venue_colon \o last.args.venue)

\* ----------------------------------------------- native entries and use_dblp
\* The entries dblp.org delivers, as dblp.get_bibtex hands them on.
NativeEntries == {strip(answer.text) : answer \in {b \in BibAnswers : b.ok}}

\* C27: get_bibtex(id, use_dblp=false) never returns an entry of dblp.org,
\* whatever calls were made before it: its result is null or an entry
\* generated from the metadata of the paper.
C27_NoNativeEntryWithoutDblp ==
  (last.op = "get_bibtex" /\ ~last.args.use_dblp /\ ~last.raised) =>
    last.result \notin NativeEntries

\* ------------------------------------------------- clients left open
\* C28: under every interleaving of requests with close(), an adapter has
\* at most one open client and every open client it created is the one it
\* holds; so when no close() is under way and no open client is held, no
\* client of the adapter is open.
C28_EveryOpenClientIsHeld ==
  \A adapter \in PaperSource :
    LET c == clients[adapter]
    IN /\ \A i \in 1..Len(c.objects) : c.objects[i] = "open" => c._client = i
       /\ (c.closing = 0 /\ c._client = 0) => \A i \in 1..Len(c.objects) : c.objects[i] = "closed"

\* ------------------------------------------------ failures and the caches
\* C29: a lookup that ends in null stores nothing: the entries of the
\* search cache, the paper cache and the bibtex cache after a get_paper that
\* returned null are those before it.
C29_NullLookupStoresNothing ==
  [][ (nops' = nops + 1 /\ last'.op = "get_paper" /\ ~last'.raised /\ last'.result = NoResult)
      => /\ search_cache'.data = search_cache.data
         /\ paper_cache'.data = paper_cache.data
         /\ bibtex_cache'.data = bibtex_cache.data ]_vars

\* ------------------------------------------- an id twice in one batch
\* lists in which an id occurs twice
RepeatedLists == {<<id, id>> : id \in {Id_dblp, Id_openalex}}

\* get_bibtex_batch(paper_ids, use_dblp) is called with an id given twice.
BatchStartRepeated ==
  /\ batch.phase = "idle"
  /\ \E paper_ids \in RepeatedLists, use_dblp \in BOOLEAN :
       batch' = [phase |-> "gathering", paper_ids |-> paper_ids, use_dblp |-> use_dblp,
                 tasks |-> [i \in 1..Len(paper_ids) |-> NewTask], finished |-> <<>>]
  /\ UNCHANGED <<search_cache, paper_cache, bibtex_cache, last, nops, cache, cache_ops, _aggregator, clients>>

NextRepeated == BatchStartRepeated \/ TaskStart \/ TaskResume \/ BatchReturn

SpecRepeated == Init /\ [][NextRepeated]_vars

\* C30: in get_bibtex_batch at most one of the calls for one id reaches a
\* backend, under every interleaving of the calls, and the map returned has
\* one key per distinct id.
C30_OneFetchPerId ==
  /\ batch.phase # "idle" =>
       \A i, j \in 1..Len(batch.tasks) :
         (i # j /\ batch.paper_ids[i] = batch.paper_ids[j]) =>
           (batch.tasks[i].http = <<>> \/ batch.tasks[j].http = <<>>)
  /\ last.op = "get_bibtex_batch" =>
       /\ \A i, j \in 1..Len(last.result) : i # j => last.result[i][1] # last.result[j][1]
       /\ {last.result[i][1] : i \in 1..Len(last.result)}
            = {last.args.paper_ids[i] : i \in 1..Len(last.args.paper_ids)}

====
